---- MODULE Spec2Model ----
(***************************************************************************)
(* CompliScan: the Legal Metrology label normalizer and compliance scorer  *)
(* (backend/schema.js).  Strings are sequences of one-character strings;   *)
(* a value of the raw data is a record [type, str]; a confidence is a      *)
(* JavaScript number, an IEEE 754 double, written as the integer multiple  *)
(* of 2^-64 it is equal to, in three limbs of 24 bits, lowest limb first.  *)
(***************************************************************************)
EXTENDS Integers, Sequences, FiniteSets, TLC

VARIABLES rawData, fieldConfidences, labels, ocrText, ocrField, extraction,
          lastIndex, page, aiAnswer, scrape, request

vars == <<rawData, fieldConfidences, labels, ocrText, ocrField, extraction,
          lastIndex, page, aiAnswer, scrape, request>>

(***************************************************************************)
(* Bounds of the model.                                                    *)
(***************************************************************************)
\* number of characters by which the over-long inputs exceed maxLength
Overrun == 2
\* number of times a submission's data goes through createNormalizedLabel
MaxPasses == 2
\* length of the longest text of the repeated calls of extractField
MaxCallText == 24

(***************************************************************************)
(* JavaScript values and string primitives.                                *)
(***************************************************************************)
Null == [type |-> "null", str |-> <<>>]

Str(s) == [type |-> "string", str |-> s]

\* a numeric value such as a JSON-LD price; str keeps its digits
Num(s) == [type |-> "number", str |-> s]

\* JavaScript truthiness of a value: null and "" are falsy
Truthy(v) == v.type # "null" /\ ~(v.type = "string" /\ Len(v.str) = 0)

Rep(c, n) == [i \in 1..n |-> c]

Min(a, b) == IF a < b THEN a ELSE b

Max(a, b) == IF a > b THEN a ELSE b

WhiteSpace == {" ", "\t", "\n", "\r"}

LineTerminators == {"\n", "\r"}

Digits == {"0", "1", "2", "3", "4", "5", "6", "7", "8", "9"}

LowerLetters == {"a", "b", "c", "d", "e", "f", "g", "h", "i", "j", "k", "l", "m",
                 "n", "o", "p", "q", "r", "s", "t", "u", "v", "w", "x", "y", "z"}

UpperLetters == {"A", "B", "C", "D", "E", "F", "G", "H", "I", "J", "K", "L", "M",
                 "N", "O", "P", "Q", "R", "S", "T", "U", "V", "W", "X", "Y", "Z"}

UpperToLower == [c \in UpperLetters |->
                 CASE c = "A" -> "a" [] c = "B" -> "b" [] c = "C" -> "c" [] c = "D" -> "d"
                   [] c = "E" -> "e" [] c = "F" -> "f" [] c = "G" -> "g" [] c = "H" -> "h"
                   [] c = "I" -> "i" [] c = "J" -> "j" [] c = "K" -> "k" [] c = "L" -> "l"
                   [] c = "M" -> "m" [] c = "N" -> "n" [] c = "O" -> "o" [] c = "P" -> "p"
                   [] c = "Q" -> "q" [] c = "R" -> "r" [] c = "S" -> "s" [] c = "T" -> "t"
                   [] c = "U" -> "u" [] c = "V" -> "v" [] c = "W" -> "w" [] c = "X" -> "x"
                   [] c = "Y" -> "y" [] c = "Z" -> "z"]

LowerChar(c) == IF c \in UpperLetters THEN UpperToLower[c] ELSE c

\* String.prototype.toLowerCase
toLowerCase(s) == [i \in 1..Len(s) |-> LowerChar(s[i])]

\* String.prototype.trim
trim(s) ==
    IF \A i \in 1..Len(s) : s[i] \in WhiteSpace THEN <<>>
    ELSE LET first == CHOOSE i \in 1..Len(s) :
                          s[i] \notin WhiteSpace /\ \A j \in 1..(i - 1) : s[j] \in WhiteSpace
             last  == CHOOSE i \in 1..Len(s) :
                          s[i] \notin WhiteSpace /\ \A j \in (i + 1)..Len(s) : s[j] \in WhiteSpace
         IN  SubSeq(s, first, last)

\* String.prototype.substring(0, n)
substring(s, n) == SubSeq(s, 1, Min(n, Len(s)))

\* the pattern p occurs in s starting at position i
StartsWithAt(s, i, p) ==
    /\ i >= 1
    /\ i + Len(p) - 1 <= Len(s)
    /\ \A k \in 1..Len(p) : s[i + k - 1] = p[k]

\* String.prototype.includes
includes(s, p) == \E i \in 1..(Len(s) + 1) : StartsWithAt(s, i, p)

IsDigitAt(s, i) == i >= 1 /\ i <= Len(s) /\ s[i] \in Digits

IsLetterAt(s, i) == i >= 1 /\ i <= Len(s) /\ LowerChar(s[i]) \in LowerLetters

\* positions i..j-1 of s are all white space (the regex \s*)
AllSpace(s, i, j) == \A k \in i..(j - 1) : k <= Len(s) /\ s[k] \in WhiteSpace

(***************************************************************************)
(* The field schema registry (schema.js, MANDATORY_FIELDS and             *)
(* SUPPLEMENTAL_FIELDS).  Two characters outside ASCII are written as     *)
(* tokens: "emdash" is the em dash and "rupee" the rupee sign.            *)
(***************************************************************************)
\* Object.entries(MANDATORY_FIELDS), in insertion order
MandatoryOrder ==
    <<"manufacturer", "net_quantity", "MRP", "consumer_care",
      "date_of_manufacture", "country_of_origin">>

MandatoryNames == {MandatoryOrder[i] : i \in 1..Len(MandatoryOrder)}

SupplementalNames == {"product_name"}

AllNames == MandatoryNames \cup SupplementalNames

MANDATORY_FIELDS ==
    [manufacturer |->
        [required |-> TRUE, maxLength |-> 200,
         description |-> "Name and address of manufacturer, packer, or importer"],
     net_quantity |->
        [required |-> TRUE, maxLength |-> 50,
         description |-> "Net quantity in standard units (weight, measure, or number)"],
     MRP |->
        [required |-> TRUE, maxLength |-> 50,
         description |-> "Maximum Retail Price inclusive of all taxes"],
     consumer_care |->
        [required |-> TRUE, maxLength |-> 150,
         description |-> "Consumer care details (phone, email, or address)"],
     date_of_manufacture |->
        [required |-> TRUE, maxLength |-> 50,
         description |-> "Date of manufacture, packing, or import"],
     country_of_origin |->
        [required |-> TRUE, maxLength |-> 100,
         description |-> "Country of origin or manufacture"]]

SUPPLEMENTAL_FIELDS ==
    [product_name |->
        [required |-> FALSE, maxLength |-> 200,
         description |-> "Product name or title (supplemental identifier)"]]

DigitsAt(s, i, n) == \A k \in 0..(n - 1) : IsDigitAt(s, i + k)

\* /^.{3,}$/ : at least three characters, none a line terminator
TestMinThree(s) ==
    /\ Len(s) >= 3
    /\ \A i \in 1..Len(s) : s[i] \notin LineTerminators

\* the alternatives of the unit group of the net_quantity pattern
QuantityUnits ==
    { <<"g">>, <<"k", "g">>, <<"m", "l">>, <<"l">>, <<"g", "m">>, <<"g", "m", "s">>,
      <<"l", "i", "t", "e", "r">>, <<"l", "i", "t", "e", "r", "s">>,
      <<"p", "i", "e", "c", "e">>, <<"p", "i", "e", "c", "e", "s">>,
      <<"p", "c", "s">>, <<"t", "a", "b", "l", "e", "t">>,
      <<"t", "a", "b", "l", "e", "t", "s">>, <<"n", "o">>, <<"n", "o", "s">> }

\* /\d+\s*(g|kg|ml|l|gm|gms|liters?|pieces?|pcs|tablets?|nos?)/i
TestNetQuantity(s) ==
    LET l == toLowerCase(s)
    IN  \E i \in 1..Len(l) :
            /\ IsDigitAt(l, i)
            /\ \E j \in (i + 1)..Len(l) :
                   /\ AllSpace(l, i + 1, j)
                   /\ \E u \in QuantityUnits : StartsWithAt(l, j, u)

\* /rupee?\s*\d+(?:[.,]\d+)?|rs\.?\s*\d+/i : every optional part of the first
\* alternative may be empty, so it matches at any digit
TestMRP(s) ==
    LET l == toLowerCase(s)
    IN  \/ \E i \in 1..Len(l) : IsDigitAt(l, i)
        \/ \E i \in 1..Len(l) :
               /\ StartsWithAt(l, i, <<"r", "s">>)
               /\ \E d \in {0, 1} :
                      /\ d = 1 => StartsWithAt(l, i + 2, <<".">>)
                      /\ \E j \in (i + 2 + d)..Len(l) :
                             AllSpace(l, i + 2 + d, j) /\ IsDigitAt(l, j)

\* /\d{10}|@|\d{3,}/
TestConsumerCare(s) ==
    \/ \E i \in 1..Len(s) : DigitsAt(s, i, 10)
    \/ \E i \in 1..Len(s) : s[i] = "@"
    \/ \E i \in 1..Len(s) : DigitsAt(s, i, 3)

DateSeparators == {"/", "-", "."}

IsSepAt(s, i) == i >= 1 /\ i <= Len(s) /\ s[i] \in DateSeparators

\* /\d{1,2}[\/\-\.]\d{1,2}[\/\-\.]\d{2,4}|[a-z]{3,}\s*\d{2,4}/i
TestDate(s) ==
    \/ \E i \in 1..Len(s) :
           /\ IsDigitAt(s, i)
           /\ IsSepAt(s, i + 1)
           /\ \E d \in {1, 2} :
                  /\ DigitsAt(s, i + 2, d)
                  /\ IsSepAt(s, i + 2 + d)
                  /\ DigitsAt(s, i + 3 + d, 2)
    \/ \E i \in 1..Len(s) :
           /\ IsLetterAt(s, i) /\ IsLetterAt(s, i + 1) /\ IsLetterAt(s, i + 2)
           /\ \E j \in (i + 3)..Len(s) :
                  AllSpace(s, i + 3, j) /\ DigitsAt(s, j, 2)

\* /^[a-z\s]{2,}$/i
TestCountry(s) ==
    /\ Len(s) >= 2
    /\ \A i \in 1..Len(s) : IsLetterAt(s, i) \/ s[i] \in WhiteSpace

\* schema.validation.test(value) of the named field
ValidationTest(fieldName, s) ==
    CASE fieldName = "manufacturer"        -> TestMinThree(s)
      [] fieldName = "net_quantity"        -> TestNetQuantity(s)
      [] fieldName = "MRP"                 -> TestMRP(s)
      [] fieldName = "consumer_care"       -> TestConsumerCare(s)
      [] fieldName = "date_of_manufacture" -> TestDate(s)
      [] fieldName = "country_of_origin"   -> TestCountry(s)
      [] fieldName = "product_name"        -> TestMinThree(s)

(***************************************************************************)
(* JavaScript numbers.  A double d with 0 <= d < 256 is <<l1, l2, l3>>     *)
(* with d = (l1 + l2 * 2^24 + l3 * 2^48) / 2^64.  Sums, differences and    *)
(* products by small integers are exact in this form and are then rounded  *)
(* to 53 significant bits as the hardware rounds them; numbers below 2^-11 *)
(* are kept to the 2^-64 the form resolves.                                *)
(***************************************************************************)
\* the radix of a limb
LimbBase == 16777216

\* the double 0
Zero == <<0, 0, 0>>

\* the double of a small non-negative integer k (k * 2^64)
FromInt(k) == <<0, 0, k * 65536>>

\* the integer part of a double
IntPart(a) == a[3] \div 65536

\* exact a + b
BigAdd(a, b) ==
    LET s1 == a[1] + b[1]
        s2 == a[2] + b[2] + (s1 \div LimbBase)
        s3 == a[3] + b[3] + (s2 \div LimbBase)
    IN  <<s1 % LimbBase, s2 % LimbBase, s3>>

\* exact a - b, for a >= b
BigSub(a, b) ==
    LET d1 == a[1] - b[1]
        b1 == IF d1 < 0 THEN 1 ELSE 0
        d2 == a[2] - b[2] - b1
        b2 == IF d2 < 0 THEN 1 ELSE 0
        d3 == a[3] - b[3] - b2
    IN  <<d1 + b1 * LimbBase, d2 + b2 * LimbBase, d3>>

\* a < b
BigLess(a, b) ==
    \/ a[3] < b[3]
    \/ a[3] = b[3] /\ a[2] < b[2]
    \/ a[3] = b[3] /\ a[2] = b[2] /\ a[1] < b[1]

\* exact a * k, for an integer k in 0..100
BigMul(a, k) ==
    LET p1 == a[1] * k
        p2 == a[2] * k + (p1 \div LimbBase)
        p3 == a[3] * k + (p2 \div LimbBase)
    IN  <<p1 % LimbBase, p2 % LimbBase, p3>>

\* a / k truncated to a multiple of 2^-64, and whether anything was cut off
BigDiv(a, k) ==
    LET n2 == (a[3] % k) * LimbBase + a[2]
        n1 == (n2 % k) * LimbBase + a[1]
    IN  [q |-> <<n1 \div k, n2 \div k, a[3] \div k>>, inexact |-> n1 % k # 0]

\* the position of the leading 1 bit of a limb v > 0
MsbLimb(v) == CHOOSE i \in 0..30 : 2^i <= v /\ v \div 2 < 2^i

\* the position of the leading 1 bit of a # Zero
Msb(a) ==
    IF a[3] > 0 THEN 48 + MsbLimb(a[3])
    ELSE IF a[2] > 0 THEN 24 + MsbLimb(a[2])
    ELSE MsbLimb(a[1])

\* round to nearest, ties to even, at 53 significant bits
RoundToDouble(a, inexact) ==
    IF a = Zero THEN Zero
    ELSE LET s == Msb(a) - 52
         IN  IF s <= 0 THEN a
             ELSE LET unit == 2^s
                      half == 2^(s - 1)
                      rem  == a[1] % unit
                      odd  == (a[1] \div unit) % 2 = 1
                      up   == rem > half \/ (rem = half /\ (inexact \/ odd))
                      low  == <<a[1] - rem, a[2], a[3]>>
                  IN  IF up THEN BigAdd(low, <<unit, 0, 0>>) ELSE low

\* a + b
FAdd(a, b) == RoundToDouble(BigAdd(a, b), FALSE)

\* a - b for a >= b
FSub(a, b) == RoundToDouble(BigSub(a, b), FALSE)

\* a * k for an integer k
FMul(a, k) == RoundToDouble(BigMul(a, k), FALSE)

\* a / k for an integer k > 0
FDiv(a, k) == LET d == BigDiv(a, k) IN RoundToDouble(d.q, d.inexact)

\* the double written k/100 in decimal (0.5 is Decimal(50))
Decimal(k) == FDiv(FromInt(k), 100)

\* a - b with its sign
FSubSigned(a, b) ==
    IF BigLess(a, b)
    THEN [neg |-> TRUE, mag |-> FSub(b, a)]
    ELSE [neg |-> FALSE, mag |-> FSub(a, b)]

\* Math.max(0, x) of a signed number
MathMax0(x) == IF x.neg THEN Zero ELSE x.mag

\* the double 0.5
Half == <<0, 0, 32768>>

\* whether a double has a fractional part
HasFraction(a) == a[1] # 0 \/ a[2] # 0 \/ a[3] % 65536 # 0

\* Math.round of a signed number: the nearest integer, halves going up
MathRound(x) ==
    IF ~x.neg THEN IntPart(BigAdd(x.mag, Half))
    ELSE IF ~BigLess(Half, x.mag) THEN 0
    ELSE LET z == BigSub(x.mag, Half)
         IN  0 - (IntPart(z) + (IF HasFraction(z) THEN 1 ELSE 0))

(***************************************************************************)
(* createNormalizedLabel (schema.js).                                      *)
(***************************************************************************)
DefaultConfidenceSixTenths == Decimal(60)

\* the default of `options.fieldConfidences?.[fieldName] || 0.5`
DefaultConfidence == Decimal(50)

\* the 0.3 of `Math.max(0, confidence - 0.3)`
FormatPenalty == Decimal(30)

\* the 0.6 below which the average confidence is penalised
PenaltyThreshold == Decimal(60)

\* the factor 30 of the confidence penalty
PenaltyScale == 30

\* the 0.7 above which a label without high violations is approved
ApproveThreshold == Decimal(70)

\* the 0.7 of `presentFields >= totalFields * 0.7`
ReviewFraction == Decimal(70)

\* IsPlaceholder comparing without toLowerCase
IsPlaceholderCaseSensitive(value) ==
    \/ Len(value) < 2
    \/ includes(value, <<"n", "o", "t", " ", "a", "v", "a", "i", "l", "a", "b", "l", "e">>)
    \/ includes(value, <<"n", "/", "a">>)
    \/ value = <<"-">>
    \/ value = <<"emdash">>

\* the placeholder test applied to a trimmed and truncated value
IsPlaceholder(value) ==
    LET lower == toLowerCase(value)
    IN  \/ Len(value) < 2
        \/ includes(lower, <<"n", "o", "t", " ", "a", "v", "a", "i", "l", "a", "b", "l", "e">>)
        \/ includes(lower, <<"n", "/", "a">>)
        \/ value = <<"-">>
        \/ value = <<"emdash">>

\* options.fieldConfidences?.[fieldName] || 0.5 : a missing key and a 0 are falsy
SuppliedConfidence(fc, fieldName) ==
    IF fieldName \in DOMAIN fc /\ fc[fieldName] # Zero
    THEN fc[fieldName]
    ELSE DefaultConfidence

FormatViolation(fieldName, schema, value) ==
    [field |-> fieldName, type |-> "format", severity |-> "medium",
     message |-> [description |-> schema.description,
                  text |-> " format is invalid: ", value |-> value]]

MissingViolation(fieldName, schema) ==
    [field |-> fieldName, type |-> "missing", severity |-> "high",
     message |-> [description |-> schema.description,
                  text |-> " is required but missing", value |-> <<>>]]

SanitizeKeepsNumbers(raw, schema) ==
    IF Truthy(raw) /\ raw.type = "string"
    THEN LET value == substring(trim(raw.str), schema.maxLength)
         IN  IF IsPlaceholder(value) THEN Null ELSE Str(value)
    ELSE IF raw.type = "number" THEN raw ELSE Null

\* the sanitize step shared by both loops: a non-empty string is trimmed,
\* truncated and nulled when it is a placeholder; anything else is null
Sanitize(raw, schema) ==
    IF Truthy(raw) /\ raw.type = "string"
    THEN LET value == substring(trim(raw.str), schema.maxLength)
         IN  IF IsPlaceholder(value) THEN Null ELSE Str(value)
    ELSE Null

\* the confidence after the validation step of the mandatory loop
ValidatedConfidence(confidence, formatBad) ==
    IF formatBad THEN MathMax0(FSubSigned(confidence, FormatPenalty)) ELSE confidence

\* the check for a missing required field
IsMissing(schema, value) ==
    schema.required /\ (~Truthy(value) \/ trim(value.str) = <<>>)

\* ProcessMandatory testing the raw value, not the sanitized one, for absence
ProcessMandatoryRawMissing(fieldName, raw, fc) ==
    LET schema     == MANDATORY_FIELDS[fieldName]
        value      == Sanitize(raw[fieldName], schema)
        formatBad  == Truthy(value) /\ ~ValidationTest(fieldName, value.str)
        confidence == ValidatedConfidence(SuppliedConfidence(fc, fieldName), formatBad)
    IN  [value |-> value,
         confidence |-> confidence,
         violations |->
            (IF formatBad THEN <<FormatViolation(fieldName, schema, value.str)>> ELSE <<>>)
            \o (IF IsMissing(schema, raw[fieldName])
                THEN <<MissingViolation(fieldName, schema)>> ELSE <<>>)]

\* ProcessMandatory dropping a value that fails its validation pattern
ProcessMandatoryNullsInvalid(fieldName, raw, fc) ==
    LET schema     == MANDATORY_FIELDS[fieldName]
        clean      == Sanitize(raw[fieldName], schema)
        formatBad  == Truthy(clean) /\ ~ValidationTest(fieldName, clean.str)
        value      == IF formatBad THEN Null ELSE clean
        confidence == ValidatedConfidence(SuppliedConfidence(fc, fieldName), formatBad)
    IN  [value |-> value,
         confidence |-> confidence,
         violations |->
            (IF formatBad THEN <<FormatViolation(fieldName, schema, clean.str)>> ELSE <<>>)
            \o (IF IsMissing(schema, value) THEN <<MissingViolation(fieldName, schema)>> ELSE <<>>)]

\* one iteration of the loop over MANDATORY_FIELDS
ProcessMandatory(fieldName, raw, fc) ==
    LET schema     == MANDATORY_FIELDS[fieldName]
        value      == Sanitize(raw[fieldName], schema)
        formatBad  == Truthy(value) /\ ~ValidationTest(fieldName, value.str)
        confidence == ValidatedConfidence(SuppliedConfidence(fc, fieldName), formatBad)
    IN  [value |-> value,
         confidence |-> confidence,
         violations |->
            (IF formatBad THEN <<FormatViolation(fieldName, schema, value.str)>> ELSE <<>>)
            \o (IF IsMissing(schema, value) THEN <<MissingViolation(fieldName, schema)>> ELSE <<>>)]

\* one iteration of the loop over SUPPLEMENTAL_FIELDS
ProcessSupplemental(fieldName, raw) ==
    Sanitize(raw[fieldName], SUPPLEMENTAL_FIELDS[fieldName])

RECURSIVE ViolationsFrom(_, _)
\* the violations pushed by the mandatory loop from field i on, in push order
ViolationsFrom(i, results) ==
    IF i > Len(MandatoryOrder) THEN <<>>
    ELSE results[i].violations \o ViolationsFrom(i + 1, results)

RECURSIVE SumOver(_, _, _, _)
\* presentConfidences.reduce((a, b) => a + b, 0), from field i on with the
\* accumulator acc
SumOver(i, acc, present, conf) ==
    IF i > Len(MandatoryOrder) THEN acc
    ELSE SumOver(i + 1,
                 IF MandatoryOrder[i] \in present
                 THEN FAdd(acc, conf[MandatoryOrder[i]]) ELSE acc,
                 present, conf)

\* AvgConfidence dividing by the number of mandatory fields
AvgConfidenceAllFields(present, conf) ==
    IF present = {} THEN Zero
    ELSE FDiv(SumOver(1, Zero, present, conf), Len(MandatoryOrder))

\* the average confidence of the present fields; 0 when no field is present
AvgConfidence(present, conf) ==
    IF present = {} THEN Zero
    ELSE FDiv(SumOver(1, Zero, present, conf), Cardinality(present))

\* (presentFields / totalFields) * 100
BaseScore(presentFields, totalFields) ==
    FMul(FDiv(FromInt(presentFields), totalFields), 100)

\* avgConfidence < 0.6 ? (0.6 - avgConfidence) * 30 : 0
ConfidencePenalty(avg) ==
    IF BigLess(avg, PenaltyThreshold)
    THEN FMul(FSub(PenaltyThreshold, avg), PenaltyScale)
    ELSE Zero

\* ComplianceScore without Math.max(0, ...)
ComplianceScoreUnclamped(presentFields, totalFields, avg) ==
    MathRound(FSubSigned(BaseScore(presentFields, totalFields), ConfidencePenalty(avg)))

\* ComplianceScore with the penalty taken in percent: (0.6 - avg) * 100
ComplianceScoreSteep(presentFields, totalFields, avg) ==
    LET penalty == IF BigLess(avg, PenaltyThreshold)
                   THEN FMul(FSub(PenaltyThreshold, avg), 100)
                   ELSE Zero
    IN  Max(0, MathRound(FSubSigned(BaseScore(presentFields, totalFields), penalty)))

\* Math.max(0, Math.round(baseScore - confidencePenalty))
ComplianceScore(presentFields, totalFields, avg) ==
    Max(0, MathRound(FSubSigned(BaseScore(presentFields, totalFields),
                                ConfidencePenalty(avg))))

\* the status decision with 'failed' for every label that has a
\* high-severity violation and a field missing
StatusFailedUnlessComplete(highSeverityViolations, presentFields, totalFields, avg) ==
    IF highSeverityViolations = 0
    THEN (IF BigLess(ApproveThreshold, avg) THEN "approved" ELSE "needs_review")
    ELSE IF presentFields >= totalFields
         THEN "needs_review"
         ELSE "failed"

\* Status approving from an average confidence above 0.6
StatusApproveAboveSixTenths(highSeverityViolations, presentFields, totalFields, avg) ==
    IF highSeverityViolations = 0
    THEN (IF BigLess(PenaltyThreshold, avg) THEN "approved" ELSE "needs_review")
    ELSE IF ~BigLess(FromInt(presentFields), FMul(ReviewFraction, totalFields))
         THEN "needs_review"
         ELSE "failed"

\* the status decision
Status(highSeverityViolations, presentFields, totalFields, avg) ==
    IF highSeverityViolations = 0
    THEN (IF BigLess(ApproveThreshold, avg) THEN "approved" ELSE "needs_review")
    ELSE IF ~BigLess(FromInt(presentFields), FMul(ReviewFraction, totalFields))
         THEN "needs_review"
         ELSE "failed"

\* PresentFields counting the supplemental fields too
PresentFieldsAll(normalized) ==
    Cardinality({f \in AllNames :
                    Truthy(normalized[f]) /\ trim(normalized[f].str) # <<>>})

\* the mandatory fields with a non-blank value
PresentFields(normalized) ==
    Cardinality({f \in MandatoryNames :
                    Truthy(normalized[f]) /\ trim(normalized[f].str) # <<>>})

RECURSIVE MandatoryResults(_, _, _)
\* the loop over Object.entries(MANDATORY_FIELDS) from field i on: the
\* outcome of each iteration, in field order
MandatoryResults(i, raw, fc) ==
    IF i > Len(MandatoryOrder) THEN <<>>
    ELSE <<ProcessMandatory(MandatoryOrder[i], raw, fc)>>
         \o MandatoryResults(i + 1, raw, fc)

\* the position of a mandatory field in MANDATORY_FIELDS
FieldIndex(fieldName) ==
    CHOOSE i \in 1..Len(MandatoryOrder) : MandatoryOrder[i] = fieldName

createNormalizedLabel(raw, fc) ==
    LET results == MandatoryResults(1, raw, fc)
        normalized ==
            [f \in MandatoryNames |-> results[FieldIndex(f)].value]
            @@ [product_name |-> ProcessSupplemental("product_name", raw)]
        confs == [f \in MandatoryNames |-> results[FieldIndex(f)].confidence]
        violations == ViolationsFrom(1, results)
        totalFields == Cardinality(DOMAIN MANDATORY_FIELDS)
        presentFields == PresentFields(normalized)
        presentForAvg == {f \in MandatoryNames : Truthy(normalized[f])}
        avgConfidence == AvgConfidence(presentForAvg, confs)
        highSeverityViolations ==
            Cardinality({i \in 1..Len(violations) : violations[i].severity = "high"})
    IN  normalized @@
        [field_confidences |-> confs,
         compliance_score |-> ComplianceScore(presentFields, totalFields, avgConfidence),
         status |-> Status(highSeverityViolations, presentFields, totalFields, avgConfidence),
         violations |-> violations,
         fields_present |-> presentFields,
         fields_total |-> totalFields]

(***************************************************************************)
(* Inputs: the raw values and confidences the extractors hand over.        *)
(***************************************************************************)
\* a well-formed value of each field
ValidValue(fieldName) ==
    CASE fieldName = "manufacturer"        -> <<"A", "c", "m", "e", " ", "F", "o", "o", "d", "s">>
      [] fieldName = "net_quantity"        -> <<"5", "0", "0", " ", "G">>
      [] fieldName = "MRP"                 -> <<"R", "s", ".", " ", "9", "9">>
      [] fieldName = "consumer_care"       -> <<"c", "a", "r", "e", "@", "x", ".", "i", "n">>
      [] fieldName = "date_of_manufacture" -> <<"J", "a", "n", " ", "2", "4">>
      [] fieldName = "country_of_origin"   -> <<"I", "n", "d", "i", "a">>
      [] fieldName = "product_name"        -> <<"T", "e", "a">>

\* a second well-formed value of each field, with white space around it
OtherValidValue(fieldName) ==
    CASE fieldName = "manufacturer"        -> <<" ", "X", "Y", "Z", " ">>
      [] fieldName = "net_quantity"        -> <<"\t", "2", "p", "c", "s">>
      [] fieldName = "MRP"                 -> <<"rupee", "4", "9", ".", "5", "\n">>
      [] fieldName = "consumer_care"       -> <<" ", "1", "8", "0", "0">>
      [] fieldName = "date_of_manufacture" -> <<"1", "/", "1", "2", "/", "2", "4", " ">>
      [] fieldName = "country_of_origin"   -> <<" ", "U", "K">>
      [] fieldName = "product_name"        -> <<" ", "G", "h", "e", "e">>

MaxLengthOf(fieldName) ==
    IF fieldName \in MandatoryNames
    THEN MANDATORY_FIELDS[fieldName].maxLength
    ELSE SUPPLEMENTAL_FIELDS[fieldName].maxLength

\* strings longer than maxLength: cut inside digits, cut right after a
\* blank, cut inside a run of blanks, and long only before trimming
LongValues(fieldName) ==
    LET L == MaxLengthOf(fieldName)
    IN  { Rep("7", L + Overrun),
          Rep("a", L - 1) \o <<" ">> \o Rep("b", Overrun),
          <<"a">> \o Rep(" ", L) \o Rep("z", Overrun),
          Rep(" ", Overrun) \o Rep("q", L) }

\* strings every field may receive: empty, blank, placeholders, short and
\* malformed values
CommonValues ==
    { <<>>,
      <<" ", " ">>,
      <<"x">>,
      <<"-">>,
      <<"emdash">>,
      <<"N", "/", "A">>,
      <<" ", "n", "/", "a", " ">>,
      <<"N", "o", "t", " ", "A", "v", "a", "i", "l", "a", "b", "l", "e">>,
      <<"1", "0", "0", "g", " ", "(", "n", "/", "a", ")">>,
      <<"a", "b">>,
      <<"a", "b", "c">>,
      <<"1", "2">>,
      <<"#", "\n", "#">> }

\* every raw value of ordinary length tried for a field
RawValues(fieldName) ==
    {Null, Num(<<"4", "9", "9">>)}
    \cup {Str(s) : s \in CommonValues
                         \cup {ValidValue(fieldName), OtherValidValue(fieldName)}}

\* a malformed value of each field that is no placeholder
InvalidValue(fieldName) ==
    IF fieldName = "MRP" THEN <<"a", "b", "c">> ELSE <<"1", "2">>

\* confidences an extractor may report
ConfidenceGrid == {Decimal(k) : k \in {0, 20, 30, 60, 70, 100}}

\* the raw data in which the first k mandatory fields carry their valid value
BaseData(k) ==
    [f \in AllNames |->
        IF \E i \in 1..k : MandatoryOrder[i] = f THEN Str(ValidValue(f)) ELSE Null]

\* the confidence map of a URL source (none) and of an OCR source
UniformConfidences == { <<>>, [f \in AllNames |-> Decimal(90)] }

\* confidence maps of whole submissions: none, uniform, mixed
BaseConfidences ==
    { <<>>,
      [f \in AllNames |-> Decimal(80)],
      [manufacturer |-> Decimal(100), net_quantity |-> Decimal(70), MRP |-> Decimal(40),
       consumer_care |-> Decimal(90), date_of_manufacture |-> Decimal(60),
       country_of_origin |-> Decimal(0), product_name |-> Decimal(65)] }

\* fc with the key f removed
WithoutKey(fc, f) == [g \in (DOMAIN fc) \ {f} |-> fc[g]]

\* fc with the key f set to c
WithKey(fc, f, c) == [g \in (DOMAIN fc) \cup {f} |-> IF g = f THEN c ELSE fc[g]]

\* the field values of a label, as raw data for another pass
FieldValues(label) == [f \in AllNames |-> label[f]]

(***************************************************************************)
(* Regular expressions (ocr-processor.js, FIELD_PATTERNS).  A pattern is a *)
(* tree of nodes; Ends gives the positions at which a match of a node that *)
(* starts at position i may end, in the order in which the backtracking    *)
(* matcher of JavaScript tries them, so that the first one that lets the   *)
(* rest of the pattern match is the one exec reports.                      *)
(***************************************************************************)
\* a quantifier without upper limit
Unbounded == 0 - 1

\* one character out of a set: [abc], \s, [0-9]; folded is the set with the
\* case of its letters folded, for the i flag; neg is set for [^...]
Cls(chars) ==
    [kind |-> "cls", chars |-> chars, folded |-> {LowerChar(x) : x \in chars}, neg |-> FALSE]

\* the nodes one after the other
Cat(nodes) == [kind |-> "cat", nodes |-> nodes]

\* a literal string; folded is the string with the case of its letters
\* folded, for the i flag
Lit(str) == [kind |-> "lit", str |-> str, folded |-> toLowerCase(str)]

\* the alternatives a|b|c
Alt(nodes) == [kind |-> "alt", nodes |-> nodes]

\* the greedy quantifier {min,max}; done counts the iterations matched
Quant(node, min, max) ==
    [kind |-> "quant", node |-> node, min |-> min, max |-> max, done |-> 0]

\* the greedy quantifiers ?, * and +
Opt(node) == Quant(node, 0, 1)

Star(node) == Quant(node, 0, Unbounded)

Plus(node) == Quant(node, 1, Unbounded)

\* whether character c is matched by a class node, under the i flag or not
ClsMatches(node, c, ignoreCase) ==
    (IF ignoreCase THEN LowerChar(c) \in node.folded ELSE c \in node.chars) # node.neg

\* the ends of a greedy quantifier over a class, from position i: the run of
\* characters of the class from i on, up to max of them, gives the first
\* end, and each shorter run down to min characters the next one
GreedyEnds(node, s, i, ignoreCase) ==
    LET run == CHOOSE j \in i..(Len(s) + 1) :
                   /\ \A k \in i..(j - 1) : ClsMatches(node.node, s[k], ignoreCase)
                   /\ j = Len(s) + 1 \/ ~ClsMatches(node.node, s[j], ignoreCase)
        last == IF node.max = Unbounded \/ run < i + node.max THEN run ELSE i + node.max
    IN  IF last < i + node.min THEN <<>>
        ELSE [k \in 1..(last - i - node.min + 1) |-> last + 1 - k]

RECURSIVE Ends(_, _, _, _)
RECURSIVE EndsFromEach(_, _, _, _)

\* the end positions of the matches of node that start at i: of a class,
\* of a literal, of ^ under the m flag, of a sequence (its first node, then the rest from
\* each end), of alternatives (the earlier first), of a quantifier (one more
\* iteration first, then stopping here; the longest run first over a class)
Ends(node, s, i, ignoreCase) ==
    CASE node.kind = "cls" ->
            IF i <= Len(s) /\ ClsMatches(node, s[i], ignoreCase) THEN <<i + 1>> ELSE <<>>
      [] node.kind = "lit" ->
            IF /\ i + Len(node.str) <= Len(s) + 1
               /\ \A k \in 1..Len(node.str) :
                      IF ignoreCase THEN LowerChar(s[i + k - 1]) = node.folded[k]
                      ELSE s[i + k - 1] = node.str[k]
            THEN <<i + Len(node.str)>> ELSE <<>>
      [] node.kind = "bol" ->
            IF i = 1 \/ s[i - 1] \in LineTerminators THEN <<i>> ELSE <<>>
      [] node.kind = "cat" ->
            IF Len(node.nodes) = 0 THEN <<i>>
            ELSE EndsFromEach(Cat(Tail(node.nodes)), s,
                              Ends(Head(node.nodes), s, i, ignoreCase), ignoreCase)
      [] node.kind = "alt" ->
            IF Len(node.nodes) = 0 THEN <<>>
            ELSE Ends(Head(node.nodes), s, i, ignoreCase)
                 \o Ends(Alt(Tail(node.nodes)), s, i, ignoreCase)
      [] node.kind = "quant" /\ node.node.kind = "cls" ->
            GreedyEnds(node, s, i, ignoreCase)
      [] node.kind = "quant" /\ node.node.kind # "cls" ->
            (IF node.max = Unbounded \/ node.done < node.max
             THEN EndsFromEach([node EXCEPT !.done = @ + 1], s,
                               Ends(node.node, s, i, ignoreCase), ignoreCase)
             ELSE <<>>)
            \o (IF node.done >= node.min THEN <<i>> ELSE <<>>)

\* the matches of node from each of the positions starts, in order: those
\* from the first half of starts, then those from the second half
EndsFromEach(node, s, starts, ignoreCase) ==
    IF Len(starts) = 0 THEN <<>>
    ELSE IF Len(starts) = 1 THEN Ends(node, s, starts[1], ignoreCase)
    ELSE EndsFromEach(node, s, SubSeq(starts, 1, Len(starts) \div 2), ignoreCase)
         \o EndsFromEach(node, s, SubSeq(starts, Len(starts) \div 2 + 1, Len(starts)),
                         ignoreCase)

RECURSIVE FirstGroup(_, _, _, _, _)
\* the match of a pattern [prefix, group, ignoreCase] that starts at position
\* start, if any: the ends pre[n..] of the part before the capture group in
\* order, each with the first match of the group
FirstGroup(pattern, s, start, pre, n) ==
    IF n > Len(pre) THEN <<>>
    ELSE LET ends == Ends(pattern.group, s, pre[n], pattern.ignoreCase)
         IN  IF ends = <<>> THEN FirstGroup(pattern, s, start, pre, n + 1)
             ELSE <<[index |-> start, lastIndex |-> ends[1],
                     group |-> SubSeq(s, pre[n], ends[1] - 1)]>>

\* the match of the pattern that starts at position start, <<>> if none
MatchAt(pattern, s, start) ==
    FirstGroup(pattern, s, start, Ends(pattern.prefix, s, start, pattern.ignoreCase), 1)

\* the match at the lowest of the positions starts, <<>> if there is none
FirstMatch(pattern, s, starts) ==
    IF starts = {} THEN <<>>
    ELSE MatchAt(pattern, s, CHOOSE p \in starts : \A q \in starts : p <= q)

\* pattern.exec(text) of a global pattern whose lastIndex is the position
\* from: the first match at or after from, <<>> for null
exec(pattern, s, from) ==
    FirstMatch(pattern, s, {p \in from..(Len(s) + 1) : MatchAt(pattern, s, p) # <<>>})

RECURSIVE MatchesFrom(_, _, _)
\* the matches of text.match(pattern) from the match m on, each search
\* starting where the match before ended
MatchesFrom(pattern, s, m) ==
    IF m = <<>> THEN <<>>
    ELSE m \o MatchesFrom(pattern, s,
                 exec(pattern, s, IF m[1].lastIndex = m[1].index
                                  THEN m[1].lastIndex + 1 ELSE m[1].lastIndex))

\* text.match(pattern) of a global pattern: every match
match(pattern, s) == MatchesFrom(pattern, s, exec(pattern, s, 1))

(***************************************************************************)
(* FIELD_PATTERNS (ocr-processor.js): every pattern ends with its capture  *)
(* group, so a pattern is the part before the group, the group, and the i  *)
(* flag.                                                                   *)
(***************************************************************************)
\* \s
Space == Cls(WhiteSpace)

\* [:\s]
ColonOrSpace == Cls({":"} \cup WhiteSpace)

\* [0-9]
Digit == Cls(Digits)

\* [^\n\r]
NotLineBreak == [Cls(LineTerminators) EXCEPT !.neg = TRUE]

\* [0-9]+(?:[.,][0-9]+)?
Amount == Cat(<<Plus(Digit), Opt(Cat(<<Cls({".", ","}), Plus(Digit)>>))>>)

\* [0-9]+(?:\.[0-9]+)?[\s]*(?:g|kg|ml|l|gm|gms|liters?|pieces?|pcs|tablets?|nos?)
Quantity ==
    Cat(<<Plus(Digit), Opt(Cat(<<Lit(<<".">>), Plus(Digit)>>)), Star(Space),
          Alt(<<Lit(<<"g">>),
                Lit(<<"k", "g">>),
                Lit(<<"m", "l">>),
                Lit(<<"l">>),
                Lit(<<"g", "m">>),
                Lit(<<"g", "m", "s">>),
                Cat(<<Lit(<<"l", "i", "t", "e", "r">>), Opt(Lit(<<"s">>))>>),
                Cat(<<Lit(<<"p", "i", "e", "c", "e">>), Opt(Lit(<<"s">>))>>),
                Lit(<<"p", "c", "s">>),
                Cat(<<Lit(<<"t", "a", "b", "l", "e", "t">>), Opt(Lit(<<"s">>))>>),
                Cat(<<Lit(<<"n", "o">>), Opt(Lit(<<"s">>))>>)>>)>>)

\* [^\n\r]+(?:\n[^\n\r]+){0,2}
UpToThreeLines ==
    Cat(<<Plus(NotLineBreak), Quant(Cat(<<Lit(<<"\n">>), Plus(NotLineBreak)>>), 0, 2)>>)

\* [0-9]{1,2}[/\-.][0-9]{1,2}[/\-.][0-9]{2,4}|[a-z]{3,}[\s]*[0-9]{2,4}
DateText ==
    Alt(<<Cat(<<Quant(Digit, 1, 2), Cls(DateSeparators), Quant(Digit, 1, 2),
               Cls(DateSeparators), Quant(Digit, 2, 4)>>),
          Cat(<<Quant(Cls(LowerLetters), 3, Unbounded), Star(Space), Quant(Digit, 2, 4)>>)>>)

\* [0-9\s\-\+\(\)]+
PhoneText == Plus(Cls(Digits \cup WhiteSpace \cup {"-", "+", "(", ")"}))

\* the keys of FIELD_PATTERNS, in order
FieldPatternOrder ==
    <<"product_name", "mrp_inclusive", "net_quantity", "manufacturer_or_importer_name_address",
      "month_year_of_manufacture_pack_or_import", "country_of_origin", "consumer_care">>

FIELD_PATTERNS ==
    [
     product_name |->
        <<
          \* /name[:\s]+([^\n\r]+)/gi
          [prefix |-> Cat(<<Lit(<<"n", "a", "m", "e">>), Plus(ColonOrSpace)>>),
          group |-> Plus(NotLineBreak),
          ignoreCase |-> TRUE],
          \* /product[:\s]+([^\n\r]+)/gi
          [prefix |-> Cat(<<Lit(<<"p", "r", "o", "d", "u", "c", "t">>), Plus(ColonOrSpace)>>),
          group |-> Plus(NotLineBreak),
          ignoreCase |-> TRUE],
          \* /^([A-Za-z\s&]+(?:cream|lotion|powder|tablet|capsule|soap|oil|shampoo|face|skin|hair|body))/gmi
          [prefix |-> [kind |-> "bol"],
          group |-> Cat(<<Plus(Cls(LowerLetters \cup UpperLetters \cup WhiteSpace \cup {"&"})),
              Alt(<<Lit(<<"c", "r", "e", "a", "m">>), Lit(<<"l", "o", "t", "i", "o", "n">>),
              Lit(<<"p", "o", "w", "d", "e", "r">>), Lit(<<"t", "a", "b", "l", "e", "t">>),
              Lit(<<"c", "a", "p", "s", "u", "l", "e">>), Lit(<<"s", "o", "a", "p">>), Lit(<<"o",
              "i", "l">>), Lit(<<"s", "h", "a", "m", "p", "o", "o">>), Lit(<<"f", "a", "c", "e">>),
              Lit(<<"s", "k", "i", "n">>), Lit(<<"h", "a", "i", "r">>), Lit(<<"b", "o", "d",
              "y">>)>>)>>),
          ignoreCase |-> TRUE]
        >>,
     mrp_inclusive |->
        <<
          \* /(?:mrp|m\.r\.p\.?|price|cost)[:\s]*\u20B9?[\s]*([0-9]+(?:[.,][0-9]+)?)/gi
          [prefix |-> Cat(<<Alt(<<Lit(<<"m", "r", "p">>), Cat(<<Lit(<<"m", ".", "r", ".", "p">>),
              Opt(Lit(<<".">>))>>), Lit(<<"p", "r", "i", "c", "e">>), Lit(<<"c", "o", "s",
              "t">>)>>), Star(ColonOrSpace), Opt(Lit(<<"rupee">>)), Star(Space)>>),
          group |-> Amount,
          ignoreCase |-> TRUE],
          \* /\u20B9[\s]*([0-9]+(?:[.,][0-9]+)?)/g
          [prefix |-> Cat(<<Lit(<<"rupee">>), Star(Space)>>),
          group |-> Amount,
          ignoreCase |-> FALSE],
          \* /rs\.?[\s]*([0-9]+(?:[.,][0-9]+)?)/gi
          [prefix |-> Cat(<<Cat(<<Lit(<<"r", "s">>), Opt(Lit(<<".">>))>>), Star(Space)>>),
          group |-> Amount,
          ignoreCase |-> TRUE],
          \* /inr[\s]*([0-9]+(?:[.,][0-9]+)?)/gi
          [prefix |-> Cat(<<Lit(<<"i", "n", "r">>), Star(Space)>>),
          group |-> Amount,
          ignoreCase |-> TRUE]
        >>,
     net_quantity |->
        <<
          \* /(?:net[\s]*qty|net[\s]*wt|quantity|weight|contents?)[:\s]*(<Quantity>)/gi
          [prefix |-> Cat(<<Alt(<<Cat(<<Lit(<<"n", "e", "t">>), Star(Space), Lit(<<"q", "t",
              "y">>)>>), Cat(<<Lit(<<"n", "e", "t">>), Star(Space), Lit(<<"w", "t">>)>>),
              Lit(<<"q", "u", "a", "n", "t", "i", "t", "y">>), Lit(<<"w", "e", "i", "g", "h",
              "t">>), Cat(<<Lit(<<"c", "o", "n", "t", "e", "n", "t">>), Opt(Lit(<<"s">>))>>)>>),
              Star(ColonOrSpace)>>),
          group |-> Quantity,
          ignoreCase |-> TRUE],
          \* /(<Quantity>)/gi
          [prefix |-> Cat(<<>>),
          group |-> Quantity,
          ignoreCase |-> TRUE]
        >>,
     manufacturer_or_importer_name_address |->
        <<
          \* /(?:mfg\.?|manufactured[\s]*by|mfd\.?[\s]*by|made[\s]*by|manufacturer)[:\s]*(<UpToThreeLines>)/gi
          [prefix |-> Cat(<<Alt(<<Cat(<<Lit(<<"m", "f", "g">>), Opt(Lit(<<".">>))>>),
              Cat(<<Lit(<<"m", "a", "n", "u", "f", "a", "c", "t", "u", "r", "e", "d">>),
              Star(Space), Lit(<<"b", "y">>)>>), Cat(<<Cat(<<Lit(<<"m", "f", "d">>),
              Opt(Lit(<<".">>))>>), Star(Space), Lit(<<"b", "y">>)>>), Cat(<<Lit(<<"m", "a", "d",
              "e">>), Star(Space), Lit(<<"b", "y">>)>>), Lit(<<"m", "a", "n", "u", "f", "a", "c",
              "t", "u", "r", "e", "r">>)>>), Star(ColonOrSpace)>>),
          group |-> UpToThreeLines,
          ignoreCase |-> TRUE],
          \* /(?:packed[\s]*by|packer|packaged[\s]*by)[:\s]*(<UpToThreeLines>)/gi
          [prefix |-> Cat(<<Alt(<<Cat(<<Lit(<<"p", "a", "c", "k", "e", "d">>), Star(Space),
              Lit(<<"b", "y">>)>>), Lit(<<"p", "a", "c", "k", "e", "r">>), Cat(<<Lit(<<"p", "a",
              "c", "k", "a", "g", "e", "d">>), Star(Space), Lit(<<"b", "y">>)>>)>>),
              Star(ColonOrSpace)>>),
          group |-> UpToThreeLines,
          ignoreCase |-> TRUE],
          \* /(?:imported[\s]*by|importer)[:\s]*(<UpToThreeLines>)/gi
          [prefix |-> Cat(<<Alt(<<Cat(<<Lit(<<"i", "m", "p", "o", "r", "t", "e", "d">>),
              Star(Space), Lit(<<"b", "y">>)>>), Lit(<<"i", "m", "p", "o", "r", "t", "e",
              "r">>)>>), Star(ColonOrSpace)>>),
          group |-> UpToThreeLines,
          ignoreCase |-> TRUE],
          \* /(?:marketed[\s]*by|marketer)[:\s]*(<UpToThreeLines>)/gi
          [prefix |-> Cat(<<Alt(<<Cat(<<Lit(<<"m", "a", "r", "k", "e", "t", "e", "d">>),
              Star(Space), Lit(<<"b", "y">>)>>), Lit(<<"m", "a", "r", "k", "e", "t", "e",
              "r">>)>>), Star(ColonOrSpace)>>),
          group |-> UpToThreeLines,
          ignoreCase |-> TRUE]
        >>,
     month_year_of_manufacture_pack_or_import |->
        <<
          \* /(?:mfg\.?[\s]*date|manufactured[\s]*on|mfd\.?[\s]*on|date[\s]*of[\s]*mfg)[:\s]*(<DateText>)/gi
          [prefix |-> Cat(<<Alt(<<Cat(<<Cat(<<Lit(<<"m", "f", "g">>), Opt(Lit(<<".">>))>>),
              Star(Space), Lit(<<"d", "a", "t", "e">>)>>), Cat(<<Lit(<<"m", "a", "n", "u", "f",
              "a", "c", "t", "u", "r", "e", "d">>), Star(Space), Lit(<<"o", "n">>)>>),
              Cat(<<Cat(<<Lit(<<"m", "f", "d">>), Opt(Lit(<<".">>))>>), Star(Space), Lit(<<"o",
              "n">>)>>), Cat(<<Lit(<<"d", "a", "t", "e">>), Star(Space), Lit(<<"o", "f">>),
              Star(Space), Lit(<<"m", "f", "g">>)>>)>>), Star(ColonOrSpace)>>),
          group |-> DateText,
          ignoreCase |-> TRUE],
          \* /(?:packed[\s]*on|pkg\.?[\s]*date|packing[\s]*date)[:\s]*(<DateText>)/gi
          [prefix |-> Cat(<<Alt(<<Cat(<<Lit(<<"p", "a", "c", "k", "e", "d">>), Star(Space),
              Lit(<<"o", "n">>)>>), Cat(<<Cat(<<Lit(<<"p", "k", "g">>), Opt(Lit(<<".">>))>>),
              Star(Space), Lit(<<"d", "a", "t", "e">>)>>), Cat(<<Lit(<<"p", "a", "c", "k", "i",
              "n", "g">>), Star(Space), Lit(<<"d", "a", "t", "e">>)>>)>>), Star(ColonOrSpace)>>),
          group |-> DateText,
          ignoreCase |-> TRUE],
          \* /(?:exp\.?[\s]*date|expiry|expires?[\s]*on|best[\s]*before)[:\s]*(<DateText>)/gi
          [prefix |-> Cat(<<Alt(<<Cat(<<Cat(<<Lit(<<"e", "x", "p">>), Opt(Lit(<<".">>))>>),
              Star(Space), Lit(<<"d", "a", "t", "e">>)>>), Lit(<<"e", "x", "p", "i", "r", "y">>),
              Cat(<<Cat(<<Lit(<<"e", "x", "p", "i", "r", "e">>), Opt(Lit(<<"s">>))>>), Star(Space),
              Lit(<<"o", "n">>)>>), Cat(<<Lit(<<"b", "e", "s", "t">>), Star(Space), Lit(<<"b", "e",
              "f", "o", "r", "e">>)>>)>>), Star(ColonOrSpace)>>),
          group |-> DateText,
          ignoreCase |-> TRUE]
        >>,
     country_of_origin |->
        <<
          \* /(?:country[\s]*of[\s]*origin|origin|made[\s]*in)[:\s]*([a-z\s]+)/gi
          [prefix |-> Cat(<<Alt(<<Cat(<<Lit(<<"c", "o", "u", "n", "t", "r", "y">>), Star(Space),
              Lit(<<"o", "f">>), Star(Space), Lit(<<"o", "r", "i", "g", "i", "n">>)>>), Lit(<<"o",
              "r", "i", "g", "i", "n">>), Cat(<<Lit(<<"m", "a", "d", "e">>), Star(Space),
              Lit(<<"i", "n">>)>>)>>), Star(ColonOrSpace)>>),
          group |-> Plus(Cls(LowerLetters \cup WhiteSpace)),
          ignoreCase |-> TRUE],
          \* /made[\s]*in[\s]*([a-z\s]+)/gi
          [prefix |-> Cat(<<Cat(<<Lit(<<"m", "a", "d", "e">>), Star(Space), Lit(<<"i", "n">>)>>),
              Star(Space)>>),
          group |-> Plus(Cls(LowerLetters \cup WhiteSpace)),
          ignoreCase |-> TRUE]
        >>,
     consumer_care |->
        <<
          \* /(?:customer[\s]*care|consumer[\s]*care|helpline|support)[:\s]*([0-9\s\-\+\(\)]+)/gi
          [prefix |-> Cat(<<Alt(<<Cat(<<Lit(<<"c", "u", "s", "t", "o", "m", "e", "r">>),
              Star(Space), Lit(<<"c", "a", "r", "e">>)>>), Cat(<<Lit(<<"c", "o", "n", "s", "u",
              "m", "e", "r">>), Star(Space), Lit(<<"c", "a", "r", "e">>)>>), Lit(<<"h", "e", "l",
              "p", "l", "i", "n", "e">>), Lit(<<"s", "u", "p", "p", "o", "r", "t">>)>>),
              Star(ColonOrSpace)>>),
          group |-> PhoneText,
          ignoreCase |-> TRUE],
          \* /(?:ph\.?|phone|tel\.?|call)[:\s]*([0-9\s\-\+\(\)]+)/gi
          [prefix |-> Cat(<<Alt(<<Cat(<<Lit(<<"p", "h">>), Opt(Lit(<<".">>))>>), Lit(<<"p", "h",
              "o", "n", "e">>), Cat(<<Lit(<<"t", "e", "l">>), Opt(Lit(<<".">>))>>), Lit(<<"c", "a",
              "l", "l">>)>>), Star(ColonOrSpace)>>),
          group |-> PhoneText,
          ignoreCase |-> TRUE],
          \* /([a-zA-Z0-9._%+-]+@[a-zA-Z0-9.-]+\.[a-zA-Z]{2,})/g
          [prefix |-> Cat(<<>>),
          group |-> Cat(<<Plus(Cls(LowerLetters \cup UpperLetters \cup Digits \cup {".", "_", "%",
              "+", "-"})), Lit(<<"@">>),
              Plus(Cls(LowerLetters \cup UpperLetters \cup Digits \cup {".", "-"})), Lit(<<".">>),
              Quant(Cls(LowerLetters \cup UpperLetters), 2, Unbounded)>>),
          ignoreCase |-> FALSE],
          \* /(?:address|contact)[:\s]*(<UpToThreeLines>)/gi
          [prefix |-> Cat(<<Alt(<<Lit(<<"a", "d", "d", "r", "e", "s", "s">>), Lit(<<"c", "o", "n",
              "t", "a", "c", "t">>)>>), Star(ColonOrSpace)>>),
          group |-> UpToThreeLines,
          ignoreCase |-> TRUE]
        >>
    ]

(***************************************************************************)
(* The OCR field extractor (ocr-processor.js).  The result of a call is a  *)
(* record [threw, value, confidence]; threw marks a call that ended in a   *)
(* TypeError instead of returning.                                         *)
(***************************************************************************)
\* names every object inherits from Object.prototype: FIELD_PATTERNS[name]
\* is then a function or an object, truthy and not iterable
ObjectPrototypeKeys ==
    {"constructor", "toString", "valueOf", "hasOwnProperty", "isPrototypeOf",
     "propertyIsEnumerable", "toLocaleString", "__proto__"}

\* Math.min(0.9, 0.6 + (value.length / 100)) without the limit of 0.9
ConfidenceUncapped(value) == FAdd(Decimal(60), FDiv(FromInt(Len(value)), 100))

\* Math.min(0.9, 0.6 + (value.length / 100))
Confidence(value) ==
    LET c == FAdd(Decimal(60), FDiv(FromInt(Len(value)), 100))
    IN  IF BigLess(Decimal(90), c) THEN Decimal(90) ELSE c

\* lines 138-146 for a capture trimmed to value, of the given confidence
Candidate(value, confidence, best) ==
    IF Len(value) > 2 /\ BigLess(best.confidence, confidence)
    THEN [value |-> Str(value), confidence |-> confidence]
    ELSE best

\* the body of the loop over matches, for the result groups of pattern.exec
Consider(groups, best) ==
    IF groups = <<>> \/ groups[1].group = <<>> THEN best
    ELSE Candidate(trim(groups[1].group), Confidence(trim(groups[1].group)), best)

RECURSIVE ForEachMatch(_, _, _, _, _)
\* the loop over matches: remaining passes are left, the pattern's lastIndex
\* is the position before, best is [value, confidence] so far; each pass
\* calls pattern.exec(text) and then sets lastIndex back to the start
ForEachMatch(pattern, text, remaining, before, best) ==
    IF remaining = 0 THEN best
    ELSE ForEachMatch(pattern, text, remaining - 1, 1,
                      Consider(exec(pattern, text, before), best))

\* the lastIndex of every pattern of FIELD_PATTERNS when the module is loaded:
\* the start of the text
NewLastIndex ==
    [fieldName \in DOMAIN FIELD_PATTERNS |->
        [k \in 1..Len(FIELD_PATTERNS[fieldName]) |-> 1]]

\* the lastIndex of a global pattern after text.match(pattern): the search
\* starts at the start whatever lastIndex was, and the last search, which
\* fails, leaves it there
LastIndexAfterMatch(before) == 1

LastIndexWithoutReset(pattern, text, remaining, before) ==
    IF remaining = 0 THEN before
    ELSE match(pattern, text)[remaining].lastIndex

RECURSIVE LastIndexAfterLoop(_, _, _, _)
\* the lastIndex of the pattern after the loop over matches: each pass sets
\* it back to the start after its pattern.exec
LastIndexAfterLoop(pattern, text, remaining, before) ==
    IF remaining = 0 THEN before
    ELSE LastIndexAfterLoop(pattern, text, remaining - 1, 1)

RECURSIVE ForEachPattern(_, _, _, _, _)
\* the loop over the patterns of a field, from patterns[k] on; the patterns
\* are found with the lastIndex of cursors
ForEachPattern(patterns, k, text, cursors, best) ==
    IF k > Len(patterns) THEN best
    ELSE ForEachPattern(patterns, k + 1, text, cursors,
             ForEachMatch(patterns[k], text, Len(match(patterns[k], text)),
                          LastIndexAfterMatch(cursors[k]), best))

\* extractField(text, fieldName) when the patterns of FIELD_PATTERNS are
\* found with the lastIndex of cursors
extractField(text, fieldName, cursors) ==
    IF fieldName \in ObjectPrototypeKeys
    THEN [threw |-> TRUE, value |-> Null, confidence |-> Zero]
    ELSE [threw |-> FALSE]
         @@ ForEachPattern(IF fieldName \in DOMAIN FIELD_PATTERNS
                           THEN FIELD_PATTERNS[fieldName] ELSE <<>>,
                           1, text,
                           IF fieldName \in DOMAIN FIELD_PATTERNS
                           THEN cursors[fieldName] ELSE <<>>,
                           [value |-> Null, confidence |-> Zero])

\* value || null
OrNull(v) == IF Truthy(v) THEN v ELSE Null

\* the canonical keys of normalizedFields and the FIELD_PATTERNS key of each
CanonicalKey(f) ==
    CASE f = "product_name"        -> "product_name"
      [] f = "MRP"                 -> "mrp_inclusive"
      [] f = "manufacturer"        -> "manufacturer_or_importer_name_address"
      [] f = "net_quantity"        -> "net_quantity"
      [] f = "country_of_origin"   -> "country_of_origin"
      [] f = "consumer_care"       -> "consumer_care"
      [] f = "date_of_manufacture" -> "month_year_of_manufacture_pack_or_import"

\* normalizedFields for the extractions of the loop over the keys of
\* FIELD_PATTERNS
NormalizedFields(extractions) ==
    [fields |-> [f \in AllNames |-> OrNull(extractions[CanonicalKey(f)].value)],
     field_confidences |-> [f \in AllNames |-> extractions[CanonicalKey(f)].confidence]]

\* processLabelImage from the recognized text on: every key of
\* FIELD_PATTERNS is extracted, then mapped to the canonical keys
processLabelImage(text, cursors) ==
    NormalizedFields([key \in DOMAIN FIELD_PATTERNS |-> extractField(text, key, cursors)])

\* the lastIndex of every pattern after the call extractField(text, fieldName)
\* that found them with the lastIndex of cursors
LastIndexAfterCall(text, fieldName, cursors) ==
    IF fieldName \in DOMAIN FIELD_PATTERNS /\ fieldName \notin ObjectPrototypeKeys
    THEN [cursors EXCEPT ![fieldName] =
             [k \in 1..Len(FIELD_PATTERNS[fieldName]) |->
                 LastIndexAfterLoop(FIELD_PATTERNS[fieldName][k], text,
                                    Len(match(FIELD_PATTERNS[fieldName][k], text)),
                                    LastIndexAfterMatch(cursors[fieldName][k]))]]
    ELSE cursors

(***************************************************************************)
(* Inputs of the extractor: texts the OCR step may recognize.              *)
(***************************************************************************)
\* a whole label, a label on which little is legible, and short texts: several
\* matches of one pattern, misses, short and long captures
OcrTexts ==
    { <<"A", "l", "o", "e", " ", "F", "a", "c", "e", " ", "C", "r", "e", "a", "m",
        "\n", "M", "R", "P", ":", " ", "rupee", " ", "2", "4", "9", ".", "0", "0",
        "\n", "N", "e", "t", " ", "W", "t", ":", " ", "2", "0", "0", " ", "m", "l",
        "\n", "M", "f", "d", ".", " ", "b", "y", ":", " ", "A", "c", "m", "e", " ",
        "H", "e", "r", "b", "a", "l", "s", ",", " ", "P", "u", "n", "e", "\n", "M",
        "f", "g", " ", "D", "a", "t", "e", ":", " ", "0", "1", "/", "0", "2", "/", "2",
        "0", "2", "4", "\n", "M", "a", "d", "e", " ", "i", "n", " ", "I", "n", "d",
        "i", "a", "\n", "H", "e", "l", "p", "l", "i", "n", "e", ":", " ", "1", "8",
        "0", "0", " ", "1", "2", "3", " ", "4", "5", "6", "7">>,
      <<"H", "e", "r", "b", "a", "l", " ", "S", "o", "a", "p", "\n", "R", "s", ".",
        " ", "4", "5", "\n", "7", "5", " ", "g", "\n", "c", "a", "r", "e", "@", "a",
        "c", "m", "e", ".", "i", "n">>,
      <<"R", "s", " ", "5", " ", "R", "s", " ", "1", "2", "0", "0">>,
      <<"1", "0", " ", "g", " ", "2", "5", "0", "0", " ", "m", "l">>,
      <<>>,
      <<"n", "o", " ", "l", "a", "b", "e", "l", " ", "t", "e", "x", "t", " ", "h", "e",
        "r", "e">>,
      <<"M", "a", "d", "e", " ", "i", "n", " ", "I", "n", "d", "i", "a">>,
      <<"M", "R", "P", " ", "4", "5">>,
      <<"P", "r", "i", "c", "e", ":", " ", "9", "9", ".", "5", "0", " ", "I", "N", "R",
        " ", "1", "2", "0", "0", ".", "7", "5">>,
      <<"H", "e", "l", "p", "l", "i", "n", "e", ":", " ", "1", "8", "0", "0", " ", "1",
        "2", "3", " ", "4", "5", "6", "7">>,
      <<"c", "a", "r", "e", "@", "a", "c", "m", "e", ".", "i", "n">>,
      <<"B", "e", "s", "t", " ", "b", "e", "f", "o", "r", "e", " ", "D", "e", "c", " ",
        "2", "0", "2", "5", " ", "P", "k", "g", ".", " ", "d", "a", "t", "e", " ", "1",
        "-", "2", "-", "2", "4">>,
      <<"P", "r", "o", "d", "u", "c", "t", ":", " ", "T", "e", "a", "\n", "N", "e",
        "t", " ", "Q", "t", "y", " ", "2", " ", "p", "c", "s">>,
      <<"P", "a", "c", "k", "e", "d", " ", "b", "y", ":", " ", "Z", "e", "d", "\n",
        "I", "m", "p", "o", "r", "t", "e", "r", ":", " ", "A", "l", "p", "h", "a", " ",
        "I", "m", "p", "o", "r", "t", "s", " ", "L", "L", "P", ",", " ", "H", "a", "r",
        "b", "o", "u", "r", " ", "R", "d", ",", " ", "M", "u", "m", "b", "a", "i">>,
      <<"M", "a", "n", "u", "f", "a", "c", "t", "u", "r", "e", "r", ":", "\n", "C",
        "o", "n", "t", "a", "c", "t", ":", " ", "1", "2">> }

\* the field names extractField is called with: the keys of FIELD_PATTERNS, a
\* name that is no key, and a name inherited from Object.prototype
RequestedFieldNames == DOMAIN FIELD_PATTERNS \cup {"batch_number", "constructor"}

\* the violations of the /api/check response: normalizedLabel.violations.map(v => v.message)
ResponseViolations(label) ==
    [j \in 1..Len(label.violations) |-> label.violations[j].message]

(***************************************************************************)
(* The state machine: a submission's data is normalized, and the label may *)
(* be fed back to the normalizer.                                          *)
(***************************************************************************)
\* the confidence maps that differ from base at most in the key f
Overrides(base, f, grid) ==
    {base, WithoutKey(base, f)} \cup {WithKey(base, f, c) : c \in grid}

\* inputs that exercise one field with every raw value
FieldInputs ==
    UNION { { [raw |-> [BaseData(k) EXCEPT ![f] = v], fc |-> fc] :
                v \in RawValues(f),
                fc \in UniformConfidences
                          \cup Overrides(<<>>, f, {Decimal(0), Decimal(30), Decimal(100)}) }
            : k \in {4, 6}, f \in AllNames }

\* inputs in which one field is longer than its maxLength
LongInputs ==
    UNION { { [raw |-> [BaseData(Len(MandatoryOrder)) EXCEPT ![f] = Str(v)], fc |-> fc] :
                v \in LongValues(f), fc \in UniformConfidences }
            : f \in AllNames }

\* inputs that exercise the scorer with every number of present fields
ScoringInputs ==
    UNION { { [raw |-> [BaseData(k) EXCEPT ![f] = v], fc |-> fc] :
                v \in {Null, Str(ValidValue(f)), Str(InvalidValue(f))},
                fc \in UNION {Overrides(base, f, ConfidenceGrid) : base \in BaseConfidences} }
            : k \in 0..Len(MandatoryOrder), f \in {"manufacturer", "MRP", "country_of_origin"} }

Init ==
    /\ \E input \in FieldInputs \cup LongInputs \cup ScoringInputs :
           /\ rawData = input.raw
           /\ fieldConfidences = input.fc
    /\ labels = <<>>
    /\ ocrText = <<>>
    /\ ocrField = ""
    /\ extraction = <<>>
    /\ page = <<>>
    /\ aiAnswer = <<>>
    /\ scrape = <<>>
    /\ lastIndex = <<>>
    /\ request = <<>>

\* the call createNormalizedLabel(parsed, {fieldConfidences: ...})
Normalize ==
    /\ labels = <<>>
    /\ labels' = <<createNormalizedLabel(rawData, fieldConfidences)>>
    /\ UNCHANGED <<rawData, fieldConfidences, ocrText, ocrField, extraction, page, aiAnswer, scrape, lastIndex, request>>

\* the label's own field values and _field_confidences are normalized again
Renormalize ==
    /\ Len(labels) >= 1
    /\ Len(labels) < MaxPasses
    /\ LET last == labels[Len(labels)]
       IN  labels' = Append(labels,
                        createNormalizedLabel(FieldValues(last), last.field_confidences))
    /\ UNCHANGED <<rawData, fieldConfidences, ocrText, ocrField, extraction, page, aiAnswer, scrape, lastIndex, request>>

Next == Normalize \/ Renormalize

Spec == Init /\ [][Next]_vars

(***************************************************************************)
(* The image path: fields are extracted from the recognized text, and the  *)
(* extracted fields of a label are normalized.                             *)
(***************************************************************************)
OcrInit ==
    /\ rawData = BaseData(0)
    /\ fieldConfidences = <<>>
    /\ labels = <<>>
    /\ ocrText \in OcrTexts
    /\ ocrField \in RequestedFieldNames
    /\ extraction = <<>>
    /\ page = <<>>
    /\ aiAnswer = <<>>
    /\ scrape = <<>>
    /\ lastIndex = NewLastIndex
    /\ request = <<>>

\* the call extractField(text, fieldName)
ExtractField ==
    /\ extraction = <<>>
    /\ extraction' = extractField(ocrText, ocrField, lastIndex)
    /\ lastIndex' = LastIndexAfterCall(ocrText, ocrField, lastIndex)
    /\ UNCHANGED <<rawData, fieldConfidences, labels, ocrText, ocrField, page, aiAnswer, scrape, request>>

\* processLabelImage on an uploaded image in which ocrText is recognized:
\* its loop calls extractField with every key of FIELD_PATTERNS, from the
\* first to the last
ProcessLabelImage ==
    /\ extraction = <<>>
    /\ ocrField = FieldPatternOrder[1]
    /\ \E normalizedFields \in {processLabelImage(ocrText, lastIndex)} :
           /\ rawData' = normalizedFields.fields
           /\ fieldConfidences' = normalizedFields.field_confidences
    /\ ocrField' = FieldPatternOrder[Len(FieldPatternOrder)]
    /\ extraction' = extractField(ocrText, FieldPatternOrder[Len(FieldPatternOrder)], lastIndex)
    /\ lastIndex' = [key \in DOMAIN FIELD_PATTERNS |->
                         LastIndexAfterCall(ocrText, key, lastIndex)[key]]
    /\ UNCHANGED <<labels, ocrText, page, aiAnswer, scrape, request>>

OcrNext == ExtractField \/ ProcessLabelImage \/ Normalize

OcrSpec == OcrInit /\ [][OcrNext]_vars

\* one more call of extractField, from any submission: the patterns are
\* found as the calls before left them
CallExtractField ==
    /\ \E text \in {t \in OcrTexts : Len(t) <= MaxCallText} :
       \E fieldName \in RequestedFieldNames :
           /\ ocrText' = text
           /\ ocrField' = fieldName
           /\ extraction' = extractField(text, fieldName, lastIndex)
           /\ lastIndex' = LastIndexAfterCall(text, fieldName, lastIndex)
    /\ UNCHANGED <<rawData, fieldConfidences, labels, page, aiAnswer, scrape, request>>

CallsSpec == OcrInit /\ [][CallExtractField]_vars

(***************************************************************************)
(* The URL scraper (server.js).  A page is what the code reads from it:    *)
(* the JSON-LD objects in document order, and per field the content of the *)
(* first meta tag of its chain, the text of the site-specific selector     *)
(* chain and the text of the generic selector chain.  undefined is Null.   *)
(***************************************************************************)
\* the fields scrapeProduct extracts, under the names of its local variables
ScrapedKeys == {"product_name", "price", "manufacturer", "net_quantity",
        "country_of_origin"}

\* a || b
Or(a, b) == IF Truthy(a) THEN a ELSE b

\* (text).trim() || null
TrimOrNull(text) == IF trim(text) = <<>> THEN Null ELSE Str(trim(text))

\* schema.itemListElement.find(...): the first breadcrumb name that contains
\* neither 'Home' nor 'Category'
ProductBreadcrumb(items) ==
    LET found == {k \in 1..Len(items) :
                     /\ Truthy(items[k])
                     /\ ~includes(items[k].str, <<"H", "o", "m", "e">>)
                     /\ ~includes(items[k].str, <<"C", "a", "t", "e", "g", "o", "r", "y">>)}
    IN  IF found = {} THEN Null ELSE items[CHOOSE k \in found : \A j \in found : k <= j]

\* one pass of the loop over the JSON-LD objects; a WebPage is a WebPage or
\* WebSite whose mainEntity is a Product, and carries the mainEntity's values
ApplySchema(data, schema) ==
    CASE schema.type = "Product" ->
            [f \in ScrapedKeys |->
                Or(data[f], schema[IF f = "product_name" THEN "name" ELSE f])]
      [] schema.type = "BreadcrumbList" ->
            IF Truthy(ProductBreadcrumb(schema.items)) /\ ~Truthy(data.product_name)
            THEN [data EXCEPT !.product_name = ProductBreadcrumb(schema.items)]
            ELSE data
      [] schema.type = "WebPage" ->
            [f \in ScrapedKeys |->
                IF f \in {"product_name", "price", "manufacturer"}
                THEN Or(data[f], schema[IF f = "product_name" THEN "name" ELSE f])
                ELSE data[f]]
      [] schema.type = "Organization" ->
            IF /\ Truthy(schema.name)
               /\ ~Truthy(data.manufacturer)
               /\ ~includes(toLowerCase(schema.name.str), <<"f", "l", "i", "p", "k", "a",
                       "r", "t">>)
            THEN [data EXCEPT !.manufacturer = schema.name]
            ELSE data
      [] OTHER -> data

RECURSIVE ForEachSchema(_, _, _)
\* the loop over the JSON-LD objects of all scripts, from schemas[k] on
ForEachSchema(schemas, k, data) ==
    IF k > Len(schemas) THEN data
    ELSE ForEachSchema(schemas, k + 1, ApplySchema(data, schemas[k]))

\* the meta tag fallbacks; a price needs a digit
MetaFallback(data, meta) ==
    [f \in ScrapedKeys |->
        IF Truthy(data[f]) THEN data[f]
        ELSE IF f = "price"
        THEN (IF Truthy(meta[f]) /\ \E i \in 1..Len(meta[f].str) : meta[f].str[i] \in Digits
              THEN meta[f] ELSE data[f])
        ELSE meta[f]]

extractStructuredData(dom) ==
    MetaFallback(ForEachSchema(dom.jsonld, 1, [f \in ScrapedKeys |-> Null]), dom.meta)

\* the branch of the if / else if chain for the URL
Platform(url) ==
    CASE includes(url, <<"f", "l", "i", "p", "k", "a", "r", "t", ".", "c", "o",
            "m">>) -> "flipkart"
      [] ~includes(url, <<"f", "l", "i", "p", "k", "a", "r", "t", ".", "c", "o",
              "m">>) /\ includes(url, <<"m", "y", "n", "t", "r", "a", ".", "c", "o",
              "m">>) -> "myntra"
      [] /\ ~includes(url, <<"f", "l", "i", "p", "k", "a", "r", "t", ".", "c", "o", "m">>)
         /\ ~includes(url, <<"m", "y", "n", "t", "r", "a", ".", "c", "o", "m">>)
         /\ includes(url, <<"n", "y", "k", "a", "a", ".", "c", "o", "m">>) -> "nykaa"
      [] /\ ~includes(url, <<"f", "l", "i", "p", "k", "a", "r", "t", ".", "c", "o", "m">>)
         /\ ~includes(url, <<"m", "y", "n", "t", "r", "a", ".", "c", "o", "m">>)
         /\ ~includes(url, <<"n", "y", "k", "a", "a", ".", "c", "o", "m">>)
         /\ (includes(url, <<"a", "m", "a", "z", "o", "n", ".">>) \/ includes(url, <<"a",
                 "m", "z", "n", ".">>)) -> "amazon"
      [] OTHER -> "generic"

\* the local variables after the site-specific or generic tier; <<>> when the
\* Amazon branch ends in the TypeError of calling .text() on a string, which
\* it does when neither of the first two manufacturer selectors finds text
SiteTier(dom, fields) ==
    CASE Platform(dom.url) \in {"flipkart", "myntra"} ->
            [f \in ScrapedKeys |-> Or(fields[f], TrimOrNull(dom.site[f]))]
      [] Platform(dom.url) = "nykaa" ->
            [f \in ScrapedKeys |->
                IF f \in {"product_name", "price", "manufacturer"}
                THEN Or(fields[f], TrimOrNull(dom.site[f])) ELSE fields[f]]
      [] Platform(dom.url) = "amazon" ->
            IF dom.site.byline = <<>> THEN <<>>
            ELSE [product_name |-> TrimOrNull(dom.site.product_name),
                  price |-> TrimOrNull(IF dom.site.price # <<>> THEN dom.site.price
                                       ELSE dom.site.price_whole \o <<".">>
                                            \o dom.site.price_fraction),
                  manufacturer |-> TrimOrNull(dom.site.byline),
                  net_quantity |-> TrimOrNull(dom.site.net_quantity),
                  country_of_origin |-> TrimOrNull(dom.site.country_of_origin)]
      [] OTHER ->
            [f \in ScrapedKeys |-> Or(fields[f], TrimOrNull(dom.generic[f]))]

\* the keys of rawData; MRP holds the local variable price
RawKeys == {"product_name", "MRP", "net_quantity", "manufacturer", "country_of_origin"}

\* the lengths of the substring(0, n) calls of the clean-up
CleanUpLength(f) ==
    CASE f = "product_name" -> 200
      [] f = "price" -> 50
      [] f = "net_quantity" -> 50
      [] f = "manufacturer" -> 100
      [] f = "country_of_origin" -> 100

\* the clean-up of the local variables, and rawData built from them
CleanUp(fields) ==
    [key \in RawKeys |->
        LET f == IF key = "MRP" THEN "price" ELSE key
        IN  IF Truthy(fields[f]) /\ fields[f].type = "string"
            THEN Str(substring(fields[f].str, CleanUpLength(f)))
            ELSE fields[f]]

\* value && (!data[key] || aiResult.confidence?.[key] >= 0.7)
AiPrefersAtThreshold(aiResult, data, key) ==
    /\ Truthy(aiResult.values[key])
    /\ \/ key \notin DOMAIN data
       \/ ~Truthy(data[key])
       \/ /\ key \in DOMAIN aiResult.confidence
          /\ ~BigLess(aiResult.confidence[key], Decimal(70))

\* value && (!data[key] || aiResult.confidence?.[key] > 0.7)
AiPrefers(aiResult, data, key) ==
    /\ Truthy(aiResult.values[key])
    /\ \/ key \notin DOMAIN data
       \/ ~Truthy(data[key])
       \/ /\ key \in DOMAIN aiResult.confidence
          /\ BigLess(Decimal(70), aiResult.confidence[key])

\* the fields of the result of normalizeProductData; ai is the outcome of the
\* AI call: not configured, failed, or the parsed aiResult
normalizeProductData(data, ai) ==
    IF ~ai.configured \/ ai.failed THEN data
    ELSE [key \in DOMAIN data \cup {k \in DOMAIN ai.values : AiPrefers(ai, data, k)} |->
             IF key \in DOMAIN ai.values /\ AiPrefers(ai, data, key)
             THEN ai.values[key] ELSE data[key]]

(***************************************************************************)
(* Pages and AI answers.                                                   *)
(***************************************************************************)
\* the JSON-LD objects of a page, in document order: @type, name, the price
\* of offers, the name of brand or manufacturer, the value of weight or size,
\* countryOfOrigin, and the names item.item.name of itemListElement
JsonLdLists ==
    LET none == [type |-> "Thing", name |-> Null, price |-> Null, manufacturer |-> Null,
                 net_quantity |-> Null, country_of_origin |-> Null, items |-> <<>>]
        product == [none EXCEPT !.type = "Product", !.name = Str(<<"G", "r", "e", "e", "n",
                " ", "T", "e", "a">>),
                                !.price = Num(<<"4", "9",
                                        "9">>), !.manufacturer = Str(<<"Z", "e", "d">>),
                                !.net_quantity = Str(<<"1", "0", "0", " ", "g">>),
                                !.country_of_origin = Str(<<"I", "n", "d", "i", "a">>)]
        named == [none EXCEPT !.type = "Product", !.name = Str(<<"T", "e", "a">>)]
        webPage == [none EXCEPT !.type = "WebPage", !.name = Str(<<"T", "e", "a", " ", "P",
                "a", "g", "e">>),
                                !.price = Str(<<"4", "5",
                                        "0">>), !.manufacturer = Str(<<"W", "e", "b", "B",
                                        "r", "a", "n", "d">>)]
        breadcrumbs == [none EXCEPT !.type = "BreadcrumbList",
                                    !.items = <<Str(<<"H", "o", "m", "e">>), Str(<<"C", "a",
                                            "t", "e", "g", "o", "r", "y", " ", "T", "e",
                                            "a">>),
                                                Str(<<"L", "o", "o", "s", "e", " ", "T",
                                                        "e", "a">>)>>]
        organization == [none EXCEPT !.type = "Organization", !.name = Str(<<"A", "c", "m",
                "e">>)]
        marketplace == [none EXCEPT !.type = "Organization",
                                    !.name = Str(<<"F", "l", "i", "p", "k", "a", "r", "t",
                                            " ", "I", "n", "t", "e", "r", "n", "e", "t">>)]
    IN  { <<>>, <<product>>, <<organization, product>>, <<breadcrumbs, product>>,
          <<webPage, product>>, <<marketplace, breadcrumbs>>,
          <<named, webPage, breadcrumbs, organization>>,
          <<product, webPage, breadcrumbs, organization>>, <<none, organization>> }

\* what the selectors find in a fetched page: meta is the content of the
\* meta tags of a field, site the text of its site-specific selectors (byline
\* is the text of the two selectors before 'a[data-asin]:contains("Store")',
\* price_whole and price_fraction the two halves of the Amazon price), generic
\* the text of its generic selectors
Pages ==
    LET urls == { <<"h", "t", "t", "p", "s", ":", "/", "/", "w", "w", "w", ".", "f", "l",
            "i", "p", "k", "a", "r", "t", ".", "c", "o", "m", "/", "t", "e", "a", "/", "p",
            "/", "1">>,
                  <<"h", "t", "t", "p", "s", ":", "/", "/", "w", "w", "w", ".", "m", "y",
                          "n", "t", "r", "a", ".", "c", "o", "m", "/", "t", "e", "a", "/",
                          "1">>,
                  <<"h", "t", "t", "p", "s", ":", "/", "/", "w", "w", "w", ".", "n", "y",
                          "k", "a", "a", ".", "c", "o", "m", "/", "t", "e", "a", "/", "p",
                          "/", "1">>,
                  <<"h", "t", "t", "p", "s", ":", "/", "/", "w", "w", "w", ".", "a", "m",
                          "a", "z", "o", "n", ".", "i", "n", "/", "d", "p", "/", "B", "0",
                          "1">>,
                  <<"h", "t", "t", "p", "s", ":", "/", "/", "a", "m", "z", "n", ".", "i",
                          "n", "/", "d", "/", "B", "0", "1">>,
                  <<"h", "t", "t", "p", "s", ":", "/", "/", "s", "h", "o", "p", ".", "e",
                          "x", "a", "m", "p", "l", "e", ".", "c", "o", "m", "/", "t", "e",
                          "a">> }
        noMeta == [f \in ScrapedKeys |-> Null]
        metas == { noMeta,
                   [noMeta EXCEPT !.product_name = Str(<<"M", "e", "t", "a", " ", "T", "e",
                           "a">>),
                                  !.price = Str(<<"I", "N", "R">>),
                                  !.manufacturer = Str(<<"M", "e", "t", "a", "B", "r", "a",
                                          "n", "d">>),
                                  !.country_of_origin = Str(<<"N", "e", "p", "a", "l">>)],
                   [noMeta EXCEPT !.price = Str(<<"1", "2", "0">>),
                                  !.net_quantity = Str(<<"2", "5", " ", "g">>)] }
        noText == [f \in ScrapedKeys \cup {"byline", "price_whole",
                "price_fraction"} |-> <<>>]
        sites == { noText,
                   [noText EXCEPT !.product_name = <<" ", "S", "i", "t", "e", " ", "T", "e",
                           "a", " ">>,
                                  !.price = <<"R", "s", " ", "9", "9">>,
                                  !.manufacturer = Rep("m", 100 + Overrun),
                                  !.net_quantity = <<"5", "0", " ", "g">>,
                                  !.country_of_origin = <<" ">>,
                                  !.byline = <<"V", "i", "s", "i", "t", " ", "t", "h", "e",
                                          " ", "Z", "e", "d", " ", "S", "t", "o", "r",
                                          "e">>],
                   [noText EXCEPT !.manufacturer = <<"S", "i", "t", "e", "B", "r", "a", "n",
                           "d">>,
                                  !.price_whole = <<"9", "9">>,
                                  !.price_fraction = <<"5", "0">>,
                                  !.byline = <<"B", "r", "a", "n", "d", ":", " ", "Z", "e",
                                          "d">>],
                   [noText EXCEPT !.byline = <<"Z", "e", "d">>] }
        generics == { [f \in ScrapedKeys |-> <<>>],
                      [product_name |-> <<"G", "e", "n", "e", "r", "i", "c", " ", "T", "e",
                              "a">>,
                       price |-> <<"R", "s", " ", "1", "0">>,
                       manufacturer |-> <<"G", "e", "n", "B", "r", "a", "n", "d">>,
                       net_quantity |-> <<"1", " ", "k", "g">>,
                       country_of_origin |-> <<"M", "a", "d", "e", " ", "i", "n", " ", "P",
                               "e", "r", "u">>] }
    IN  [url : urls, jsonld : JsonLdLists, meta : metas, site : sites, generic : generics]

\* the outcomes of the AI call: OpenAI not configured, the call or the parse
\* of its answer failed, or aiResult with its values and its confidence object
AiAnswers ==
    LET off == [configured |-> FALSE, failed |-> FALSE, values |-> <<>>, confidence |-> <<>>]
    IN  { off,
          [off EXCEPT !.configured = TRUE, !.failed = TRUE],
          [off EXCEPT !.configured = TRUE,
                      !.values = [product_name |-> Str(<<"A", "I", " ", "T", "e", "a">>),
                                  MRP |-> Str(<<"R", "s", " ", "4", "9", "9">>),
                                  manufacturer |-> Str(<<"A", "I", " ", "B", "r", "a", "n",
                                          "d">>),
                                  net_quantity |-> Str(<<>>),
                                  country_of_origin |-> Null],
                      !.confidence = [product_name |-> Decimal(90), MRP |-> Decimal(70),
                                      manufacturer |-> Decimal(50),
                                      net_quantity |-> Decimal(90)]],
          [off EXCEPT !.configured = TRUE,
                      !.values = [product_name |-> Str(<<"A", "I", " ", "T", "e", "a">>),
                                  manufacturer |-> Str(Rep("a", 200 + Overrun))],
                      !.confidence = [manufacturer |-> Decimal(95)]] }

(***************************************************************************)
(* The URL path: scrapeProduct runs up to its await, and returns what      *)
(* normalizeProductData resolves to.                                       *)
(***************************************************************************)
ScrapeInit ==
    /\ rawData = BaseData(0)
    /\ fieldConfidences = <<>>
    /\ labels = <<>>
    /\ ocrText = <<>>
    /\ ocrField = ""
    /\ extraction = <<>>
    /\ page \in Pages
    /\ aiAnswer \in AiAnswers
    /\ scrape = [pc |-> "loaded", structuredData |-> <<>>, fields |-> <<>>,
                 rawData |-> <<>>, normalizedData |-> <<>>]
    /\ lastIndex = <<>>
    /\ request = <<>>

\* scrapeProduct from cheerio.load to the call of normalizeProductData:
\* structured data, the branch of the platform, the clean-up
ScrapePage ==
    /\ scrape.pc = "loaded"
    /\ \E structuredData \in {extractStructuredData(page)} :
       \E fields \in {SiteTier(page, [f \in ScrapedKeys |-> Or(structuredData[f], Null)])} :
           scrape' = IF fields = <<>>
                     THEN [scrape EXCEPT !.pc = "threw", !.structuredData = structuredData]
                     ELSE [scrape EXCEPT !.pc = "awaiting",
                                         !.structuredData = structuredData,
                                         !.fields = fields,
                                         !.rawData = CleanUp(fields)]
    /\ UNCHANGED <<rawData, fieldConfidences, labels, ocrText, ocrField, extraction, page, aiAnswer, lastIndex, request>>

\* normalizeProductData settles and scrapeProduct returns normalizedData
AiNormalize ==
    /\ scrape.pc = "awaiting"
    /\ scrape' = [scrape EXCEPT !.pc = "returned",
                                !.normalizedData = normalizeProductData(scrape.rawData, aiAnswer)]
    /\ UNCHANGED <<rawData, fieldConfidences, labels, ocrText, ocrField, extraction, page, aiAnswer, lastIndex, request>>

ScrapeNext == ScrapePage \/ AiNormalize

ScrapeSpec == ScrapeInit /\ [][ScrapeNext]_vars

(***************************************************************************)
(* The handler of POST /api/check: one submission from the request to the  *)
(* response.  request.file tells whether the uploaded file is in the       *)
(* uploads directory; request.submission is what insertSubmission was      *)
(* called with, request.rows the violation rows written.                   *)
(***************************************************************************)
\* the status of submissionData
PersistedStatusPending(status) ==
    IF status \in {"approved", "needs_review"} THEN status ELSE "pending"

PersistedStatus(status) ==
    IF status \in {"approved", "failed", "needs_review"} THEN status ELSE "needs_review"

\* the local violations of the handler: required.forEach over the fields
\* required of the source
MissingChecks(parsed, isImageSource) ==
    LET required ==
            IF isImageSource
            THEN <<"product_name", "MRP", "manufacturer", "net_quantity",
                   "country_of_origin", "consumer_care", "date_of_manufacture">>
            ELSE <<"product_name", "MRP", "manufacturer", "net_quantity",
                   "country_of_origin">>
        fieldNames ==
            [product_name |-> "Product Name",
             MRP |-> "MRP (Retail Sale Price)",
             manufacturer |-> "Manufacturer/Packer/Importer Name & Address",
             net_quantity |-> "Net Quantity",
             country_of_origin |-> "Country of Origin",
             consumer_care |-> "Consumer Care Details",
             date_of_manufacture |-> "Date of Manufacture/Import"]
        absent(k) ==
            \/ ~Truthy(parsed[k])
            \/ parsed[k].type = "string" /\ trim(parsed[k].str) = <<>>
        missing == SelectSeq(required, absent)
    IN  [j \in 1..Len(missing) |->
            [description |-> fieldNames[missing[j]], text |-> " missing", value |-> <<>>]]

\* a request as the handler receives it: a JSON body with a url, valid or
\* not, or a multipart body with an image, a url, both or neither; the
\* validators run before the multipart body is read
ApiInit ==
    /\ \E url \in BOOLEAN, image \in BOOLEAN, valid \in BOOLEAN :
           /\ image => valid
           /\ ~valid => url
           /\ request = [pc |-> "received", url |-> url, image |-> image, valid |-> valid,
                         file |-> image, checks |-> <<>>, log |-> <<>>,
                         submission |-> <<>>, rows |-> <<>>, response |-> <<>>]
    /\ rawData = BaseData(0)
    /\ fieldConfidences = <<>>
    /\ labels = <<>>
    /\ lastIndex = NewLastIndex
    /\ IF request.valid /\ request.image /\ ~request.url
       THEN /\ ocrText \in OcrTexts
            /\ ocrField = FieldPatternOrder[1]
       ELSE /\ ocrText = <<>>
            /\ ocrField = ""
    /\ extraction = <<>>
    /\ IF request.valid /\ request.url /\ ~request.image
       THEN /\ page \in {dom \in Pages : Len(dom.jsonld) <= 1 /\ dom.meta.product_name = Null}
            /\ aiAnswer \in AiAnswers
            /\ scrape = [pc |-> "loaded", structuredData |-> <<>>, fields |-> <<>>,
                         rawData |-> <<>>, normalizedData |-> <<>>]
       ELSE /\ page = <<>>
            /\ aiAnswer = <<>>
            /\ scrape = <<>>

\* the early returns: validation errors, neither a url nor an image, both
Reject ==
    /\ request.pc = "received"
    /\ ~request.valid \/ request.url = request.image
    /\ request' = [request EXCEPT !.pc = "responded",
                                  !.response = [code |-> 400, body |-> <<>>]]
    /\ UNCHANGED <<rawData, fieldConfidences, labels, ocrText, ocrField, extraction,
                   lastIndex, page, aiAnswer, scrape>>

CheckLabelUnawaited ==
    /\ request.pc = "received"
    /\ request.valid
    /\ request.url # request.image
    /\ IF request.url THEN scrape.pc \in {"awaiting", "returned"} ELSE extraction # <<>>
    /\ \E parsed \in {IF request.url
                      THEN [f \in AllNames |->
                               IF scrape.pc = "returned" /\ f \in DOMAIN scrape.normalizedData
                               THEN scrape.normalizedData[f]
                               ELSE IF scrape.pc = "awaiting" /\ f \in DOMAIN scrape.rawData
                               THEN scrape.rawData[f] ELSE Null]
                      ELSE rawData} :
       \E confidences \in {IF request.url THEN <<>> ELSE fieldConfidences} :
       \E normalizedLabel \in {createNormalizedLabel(parsed, confidences)} :
           /\ rawData' = parsed
           /\ fieldConfidences' = confidences
           /\ labels' = <<normalizedLabel>>
           /\ request' =
                  [request EXCEPT
                      !.pc = "checked",
                      !.checks = MissingChecks(parsed, request.image),
                      !.log = [compliance_score |-> normalizedLabel.compliance_score,
                               status |-> normalizedLabel.status,
                               violations |->
                                   [j \in 1..Len(normalizedLabel.violations) |->
                                       normalizedLabel.violations[j].message]],
                      !.file = FALSE]
    /\ UNCHANGED <<ocrText, ocrField, extraction, lastIndex, page, aiAnswer, scrape>>

\* from the value of parsed to the end of cleanupFile: the local checks,
\* createNormalizedLabel, the log, and the uploaded file is unlinked
CheckLabel ==
    /\ request.pc = "received"
    /\ request.valid
    /\ request.url # request.image
    /\ IF request.url THEN scrape.pc = "returned" ELSE extraction # <<>>
    /\ \E parsed \in {IF request.url
                      THEN [f \in AllNames |->
                               IF f \in DOMAIN scrape.normalizedData
                               THEN scrape.normalizedData[f] ELSE Null]
                      ELSE rawData} :
       \E confidences \in {IF request.url THEN <<>> ELSE fieldConfidences} :
       \E normalizedLabel \in {createNormalizedLabel(parsed, confidences)} :
           /\ rawData' = parsed
           /\ fieldConfidences' = confidences
           /\ labels' = <<normalizedLabel>>
           /\ request' =
                  [request EXCEPT
                      !.pc = "checked",
                      !.checks = MissingChecks(parsed, request.image),
                      !.log = [compliance_score |-> normalizedLabel.compliance_score,
                               status |-> normalizedLabel.status,
                               violations |->
                                   [j \in 1..Len(normalizedLabel.violations) |->
                                       normalizedLabel.violations[j].message]],
                      !.file = FALSE]
    /\ UNCHANGED <<ocrText, ocrField, extraction, lastIndex, page, aiAnswer, scrape>>

\* insertSubmission settles: the row is inserted, or the promise rejects
InsertSubmission ==
    /\ request.pc = "checked"
    /\ \E status \in {PersistedStatus(labels[1].status)} :
       \E inserted \in {ok \in BOOLEAN :
                            ok => status \in {"approved", "failed", "needs_review"}} :
           request' = [request EXCEPT
                          !.pc = IF inserted THEN "inserted" ELSE "caught",
                          !.submission = [status |-> status, inserted |-> inserted]]
    /\ UNCHANGED <<rawData, fieldConfidences, labels, ocrText, ocrField, extraction,
                   lastIndex, page, aiAnswer, scrape>>

InsertViolationsAnyway ==
    /\ request.pc \in {"inserted", "caught"}
    /\ request.rows = <<>>
    /\ Len(labels[1].violations) > 0
    /\ request' = [request EXCEPT !.pc = "caught", !.rows = labels[1].violations]
    /\ UNCHANGED <<rawData, fieldConfidences, labels, ocrText, ocrField, extraction,
                   lastIndex, page, aiAnswer, scrape>>

\* insertViolations settles, for a label that has violations: the rows are
\* written, or the promise rejects
InsertViolations ==
    /\ request.pc = "inserted"
    /\ Len(labels[1].violations) > 0
    /\ \E written \in BOOLEAN :
           request' = [request EXCEPT
                          !.pc = IF written THEN "stored" ELSE "caught",
                          !.rows = IF written THEN labels[1].violations ELSE <<>>]
    /\ UNCHANGED <<rawData, fieldConfidences, labels, ocrText, ocrField, extraction,
                   lastIndex, page, aiAnswer, scrape>>

\* res.json(log), after the database calls or after the catch of dbError
Respond ==
    /\ \/ request.pc \in {"stored", "caught"}
       \/ request.pc = "inserted" /\ Len(labels[1].violations) = 0
    /\ request' = [request EXCEPT !.pc = "responded",
                                  !.response = [code |-> 200, body |-> request.log]]
    /\ UNCHANGED <<rawData, fieldConfidences, labels, ocrText, ocrField, extraction,
                   lastIndex, page, aiAnswer, scrape>>

\* the catch of the handler, for an error thrown before parsed has a value:
\* the url is too long or scrapeProduct rejects, the file type is not allowed
\* or processLabelImage rejects; the uploaded file is unlinked
HandleError ==
    /\ request.pc = "received"
    /\ request.valid
    /\ request.url # request.image
    /\ IF request.url THEN scrape.pc \in {"loaded", "threw"} ELSE extraction = <<>>
    /\ \E statusCode \in {400, 500} :
           request' = [request EXCEPT !.pc = "responded", !.file = FALSE,
                                      !.response = [code |-> statusCode, body |-> <<>>]]
    /\ UNCHANGED <<rawData, fieldConfidences, labels, ocrText, ocrField, extraction,
                   lastIndex, page, aiAnswer, scrape>>

ApiNext ==
    \/ Reject
    \/ request.valid /\ request.url /\ ~request.image /\ ScrapePage
    \/ request.valid /\ request.url /\ ~request.image /\ AiNormalize
    \/ request.valid /\ request.image /\ ~request.url /\ ProcessLabelImage
    \/ CheckLabel
    \/ InsertSubmission
    \/ InsertViolations
    \/ Respond
    \/ HandleError

ApiSpec == ApiInit /\ [][ApiNext]_vars

(***************************************************************************)
(* Vocabulary of the properties.                                           *)
(***************************************************************************)
\* the pass that produced the newest label of the state
Passes == IF labels = <<>> THEN {} ELSE {Len(labels)}

\* the raw data and confidences that produced the i-th label
PassInput(i) ==
    IF i = 1
    THEN [raw |-> rawData, fc |-> fieldConfidences]
    ELSE [raw |-> FieldValues(labels[i - 1]), fc |-> labels[i - 1].field_confidences]

\* indices of the violations of a label that name field f with the given type
ViolationsOf(label, f, type) ==
    {j \in 1..Len(label.violations) :
        label.violations[j].field = f /\ label.violations[j].type = type}

\* the mandatory fields of a label that carry a value
PresentIn(label) == {f \in MandatoryNames : label[f] # Null}

\* the mean of the confidences of the present mandatory fields of a label,
\* added up in field order; 0 when no field is present
MeanConfidence(label) ==
    IF PresentIn(label) = {} THEN Zero
    ELSE FDiv(SumOver(1, Zero, PresentIn(label), label.field_confidences),
              Cardinality(PresentIn(label)))

\* the trimmed and truncated form of a raw string
Cleaned(f, raw) == substring(trim(raw.str), MaxLengthOf(f))

\* C1: every label has fields_total = 6 and an integer compliance_score
\* between 0 and 100.
C1_ScoreRange ==
    \A i \in Passes :
        /\ labels[i].fields_total = 6
        /\ labels[i].compliance_score \in 0..100

\* a label with one present field whose confidence penalty exceeds its base
\* score, so that the score is held at 0
C1_Witness ==
    /\ Len(labels) >= 1
    /\ labels[1].fields_present = 1
    /\ labels[1].fields_total = 6
    /\ labels[1].compliance_score = 0

\* C2: every 'missing' violation names a mandatory field whose value is
\* null, and every null mandatory field has exactly one 'missing' violation.
C2_MissingIffNull ==
    \A i \in Passes :
        /\ \A j \in 1..Len(labels[i].violations) :
               labels[i].violations[j].type = "missing" =>
                   /\ labels[i].violations[j].field \in MandatoryNames
                   /\ labels[i][labels[i].violations[j].field] = Null
        /\ \A f \in MandatoryNames :
               Cardinality(ViolationsOf(labels[i], f, "missing"))
                   = (IF labels[i][f] = Null THEN 1 ELSE 0)

\* a label with a placeholder nulled next to a field that kept its value
C2_Witness ==
    /\ Len(labels) >= 1
    /\ \E f \in MandatoryNames :
           /\ Truthy(rawData[f])
           /\ labels[1][f] = Null
           /\ Cardinality(ViolationsOf(labels[1], f, "missing")) = 1
    /\ \E g \in MandatoryNames : labels[1][g] # Null

\* C3: normalizing a label's own field values and confidences again yields
\* the same field values, confidences and violations.
C3_Idempotent ==
    \A i \in Passes :
        i >= 2 =>
            /\ FieldValues(labels[i]) = FieldValues(labels[i - 1])
            /\ labels[i].field_confidences = labels[i - 1].field_confidences
            /\ {labels[i].violations[j] : j \in 1..Len(labels[i].violations)}
                 = {labels[i - 1].violations[j] : j \in 1..Len(labels[i - 1].violations)}

\* C4: turning one missing mandatory field into a present, format-valid
\* value, with any confidence, never lowers compliance_score.
C4_Monotone ==
    Len(labels) = 1 =>
        \A f \in MandatoryNames :
            labels[1][f] = Null =>
                \A fc \in Overrides(fieldConfidences, f, ConfidenceGrid) :
                    createNormalizedLabel(
                        [rawData EXCEPT ![f] = Str(ValidValue(f))], fc).compliance_score
                            >= labels[1].compliance_score

\* a label with a missing field whose score rises by less than a sixth of
\* 100 when the field is supplied with a low confidence
C4_Witness ==
    /\ Len(labels) = 1
    /\ labels[1].compliance_score > 0
    /\ \E f \in MandatoryNames :
           /\ labels[1][f] = Null
           /\ \E c \in ConfidenceGrid :
                  LET better == createNormalizedLabel(
                                    [rawData EXCEPT ![f] = Str(ValidValue(f))],
                                    WithKey(fieldConfidences, f, c))
                  IN  /\ better[f] # Null
                      /\ better.compliance_score < labels[1].compliance_score + 16

\* the score the scoring rule gives a label, from its own fields
RuleScore(label) ==
    LET present == Cardinality(PresentIn(label))
        \* max(0, (0.6 - avgConfidence) * 30)
        penalty == FMul(MathMax0(FSubSigned(Decimal(60), MeanConfidence(label))), 30)
        \* max(0, present / 6 * 100 - penalty)
        clipped == MathMax0(FSubSigned(FMul(FDiv(FromInt(present), 6), 100), penalty))
    IN  MathRound([neg |-> FALSE, mag |-> clipped])

\* C5: compliance_score = round(max(0, present/6*100 - max(0, (0.6 -
\* avgConfidence)*30))), avgConfidence being the mean confidence of the
\* present mandatory fields only (0 when none is present).
C5_ScoreFormula ==
    \A i \in Passes : labels[i].compliance_score = RuleScore(labels[i])

\* a label with absent fields whose present fields average below 0.6
C5_Witness ==
    /\ Len(labels) >= 1
    /\ labels[1].fields_present \in 1..5
    /\ BigLess(MeanConfidence(labels[1]), Decimal(60))
    /\ labels[1].compliance_score > 0
    /\ labels[1].compliance_score * 6 < labels[1].fields_present * 100

\* the status the classification rule gives a label, from its own fields
RuleStatus(label) ==
    LET present == Cardinality(PresentIn(label))
        high    == \E j \in 1..Len(label.violations) : label.violations[j].severity = "high"
    IN  IF ~high
        THEN (IF BigLess(Decimal(70), MeanConfidence(label))
              THEN "approved" ELSE "needs_review")
        ELSE (IF present >= 5 THEN "needs_review" ELSE "failed")

\* C6: the status is 'approved' without high violation and avgConfidence >
\* 0.7, 'needs_review' without high violation and avgConfidence <= 0.7 or
\* with a high violation and at least 5 fields present, 'failed' otherwise.
C6_StatusRule ==
    \A i \in Passes :
        /\ labels[i].status \in {"approved", "needs_review", "failed"}
        /\ labels[i].status = RuleStatus(labels[i])

\* all six fields present and valid with an average confidence above 0.6
\* and not above 0.7
C6_Witness ==
    /\ Len(labels) >= 1
    /\ labels[1].fields_present = 6
    /\ labels[1].violations = <<>>
    /\ BigLess(Decimal(60), MeanConfidence(labels[1]))
    /\ ~BigLess(Decimal(70), MeanConfidence(labels[1]))
    /\ labels[1].status = "needs_review"

\* the cleaned raw string of field f is no placeholder and fails the pattern
FailsFormat(f, raw) ==
    /\ raw.type = "string"
    /\ LET c == Cleaned(f, raw)
           l == toLowerCase(c)
       IN  /\ Len(c) >= 2
           /\ ~includes(l, <<"n", "/", "a">>)
           /\ ~includes(l, <<"n", "o", "t", " ", "a", "v", "a", "i", "l", "a", "b", "l", "e">>)
           /\ ~ValidationTest(f, c)

\* C7: a mandatory value that fails its validation pattern is kept, counts
\* in fields_present, and gets exactly one violation, of type 'format' and
\* severity 'medium', and no 'missing' violation.
C7_FormatKept ==
    \A i \in Passes : \A f \in MandatoryNames :
        FailsFormat(f, PassInput(i).raw[f]) =>
            /\ labels[i][f] = Str(Cleaned(f, PassInput(i).raw[f]))
            /\ labels[i].fields_present = Cardinality(PresentIn(labels[i]))
            /\ f \in PresentIn(labels[i])
            /\ Cardinality({j \in 1..Len(labels[i].violations) :
                               labels[i].violations[j].field = f}) = 1
            /\ \A j \in ViolationsOf(labels[i], f, "format") :
                   labels[i].violations[j].severity = "medium"
            /\ Cardinality(ViolationsOf(labels[i], f, "format")) = 1
            /\ ViolationsOf(labels[i], f, "missing") = {}

\* MRP = "abc" went through the normalizer
C7_Witness ==
    /\ Len(labels) >= 1
    /\ rawData["MRP"] = Str(<<"a", "b", "c">>)
    /\ labels[1]["MRP"] = Str(<<"a", "b", "c">>)
    /\ Cardinality(ViolationsOf(labels[1], "MRP", "format")) = 1

\* C8: the recorded confidence of a present mandatory field is the supplied
\* confidence c, lowered by 0.3 and floored at 0 when the value fails its
\* validation pattern, for every c in 0..1.
C8_ConfidencePenalty ==
    \A i \in Passes : \A f \in MandatoryNames :
        (f \in DOMAIN PassInput(i).fc /\ labels[i][f] # Null) =>
            labels[i].field_confidences[f]
                = IF FailsFormat(f, PassInput(i).raw[f])
                  THEN MathMax0(FSubSigned(PassInput(i).fc[f], Decimal(30)))
                  ELSE PassInput(i).fc[f]

\* the cleaned raw string is a placeholder
IsSentinel(f, raw) ==
    /\ raw.type = "string"
    /\ LET c == Cleaned(f, raw)
       IN  \/ Len(c) < 2
           \/ \E i \in 1..(Len(c) - 2) :
                  c[i] \in {"n", "N"} /\ c[i + 1] = "/" /\ c[i + 2] \in {"a", "A"}
           \/ includes(toLowerCase(c),
                       <<"n", "o", "t", " ", "a", "v", "a", "i", "l", "a", "b", "l", "e">>)
           \/ c \in {<<"-">>, <<"emdash">>}

\* C9: a mandatory raw string whose trimmed and truncated form is shorter
\* than 2, contains "not available" or "n/a" in any letter case, or is "-"
\* or the em dash, becomes null, is not counted in fields_present, and gets
\* a 'missing'/'high' violation and no 'format' violation.
C9_SentinelSuppressed ==
    \A i \in Passes : \A f \in MandatoryNames :
        IsSentinel(f, PassInput(i).raw[f]) =>
            /\ labels[i][f] = Null
            /\ labels[i].fields_present = Cardinality(PresentIn(labels[i]))
            /\ \E j \in ViolationsOf(labels[i], f, "missing") :
                   labels[i].violations[j].severity = "high"
            /\ ViolationsOf(labels[i], f, "format") = {}

\* "N/A" as country_of_origin went through the normalizer
C9_Witness ==
    /\ Len(labels) >= 1
    /\ rawData["country_of_origin"] = Str(<<"N", "/", "A">>)
    /\ labels[1]["country_of_origin"] = Null
    /\ ViolationsOf(labels[1], "country_of_origin", "missing") # {}

\* the product names a submission is compared under
ProductNameProbes ==
    { Null, Num(<<"4", "9", "9">>), Str(<<>>), Str(<<"N", "/", "A">>), Str(<<"a", "b">>),
      Str(ValidValue("product_name")), Str(OtherValidValue("product_name")) }

\* C10: the raw value of product_name changes neither the violations, the
\* confidences, fields_present, compliance_score nor the status, and no
\* violation names product_name.
C10_SupplementalIgnored ==
    Len(labels) = 1 =>
        /\ \A j \in 1..Len(labels[1].violations) :
               labels[1].violations[j].field # "product_name"
        /\ \A v \in ProductNameProbes :
               LET other == createNormalizedLabel(
                                [rawData EXCEPT !["product_name"] = v], fieldConfidences)
               IN  /\ other.violations = labels[1].violations
                   /\ other.field_confidences = labels[1].field_confidences
                   /\ other.fields_present = labels[1].fields_present
                   /\ other.compliance_score = labels[1].compliance_score
                   /\ other.status = labels[1].status

\* a label with a product name, next to mandatory fields present and absent
C10_Witness ==
    /\ Len(labels) = 1
    /\ labels[1]["product_name"] # Null
    /\ labels[1].fields_present \in 1..5

\* the rank of a severity, higher first
SeverityRank(severity) ==
    CASE severity = "high" -> 1
      [] severity = "medium" -> 2
      [] severity = "low" -> 3

\* the position of a field name among the field names in ascending order
FieldNameRank(f) ==
    CASE f = "MRP" -> 1
      [] f = "consumer_care" -> 2
      [] f = "country_of_origin" -> 3
      [] f = "date_of_manufacture" -> 4
      [] f = "manufacturer" -> 5
      [] f = "net_quantity" -> 6
      [] f = "product_name" -> 7

\* violation v may stand before violation w in the display order
InDisplayOrder(v, w) ==
    \/ SeverityRank(v.severity) < SeverityRank(w.severity)
    \/ /\ v.severity = w.severity
       /\ FieldNameRank(v.field) <= FieldNameRank(w.field)

\* C20: the violations of every label, and the messages of the response in
\* the same positions, are ordered by severity descending and, within equal
\* severity, by field name ascending.
C20_ViolationsOrdered ==
    \A i \in Passes :
        /\ Len(ResponseViolations(labels[i])) = Len(labels[i].violations)
        /\ \A j, k \in 1..Len(labels[i].violations) :
               j < k => /\ InDisplayOrder(labels[i].violations[j], labels[i].violations[k])
                        /\ ResponseViolations(labels[i])[j] = labels[i].violations[j].message

\* an extractField call has returned or thrown
Called == extraction # <<>>

RECURSIVE CapturesFrom(_, _)
\* the captures of matches[n..], trimmed, that are longer than 2 characters
CapturesFrom(matches, n) ==
    IF n > Len(matches) THEN <<>>
    ELSE (IF Len(trim(matches[n].group)) > 2 THEN <<trim(matches[n].group)>> ELSE <<>>)
         \o CapturesFrom(matches, n + 1)

RECURSIVE QualifyingCaptures(_, _, _)
\* the candidates of every match of every pattern from patterns[k] on, in
\* the order in which a scan of the text finds them
QualifyingCaptures(patterns, k, text) ==
    IF k > Len(patterns) THEN <<>>
    ELSE CapturesFrom(match(patterns[k], text), 1)
         \o QualifyingCaptures(patterns, k + 1, text)

\* the candidates of a field name in a text; none for a name without patterns
CandidatesIn(text, name) ==
    IF name \in DOMAIN FIELD_PATTERNS
    THEN QualifyingCaptures(FIELD_PATTERNS[name], 1, text)
    ELSE <<>>

\* min(0.9, 0.6 + n/100) for a value of n characters
HeuristicConfidence(n) ==
    IF BigLess(Decimal(90), FAdd(Decimal(60), FDiv(FromInt(n), 100)))
    THEN Decimal(90)
    ELSE FAdd(Decimal(60), FDiv(FromInt(n), 100))

\* the position of the first candidate of the strictly highest confidence
BestIndex(candidates) ==
    CHOOSE i \in 1..Len(candidates) :
        /\ \A j \in 1..Len(candidates) :
               ~BigLess(HeuristicConfidence(Len(candidates[i])),
                        HeuristicConfidence(Len(candidates[j])))
        /\ \A j \in 1..(i - 1) :
               BigLess(HeuristicConfidence(Len(candidates[j])),
                       HeuristicConfidence(Len(candidates[i])))

\* C11: for a field of FIELD_PATTERNS, the value extractField returns is the
\* candidate of the strictly highest confidence among all matches of all the
\* field's patterns, the earliest such candidate, and null when there is no
\* candidate.
C11_BestOfAllMatches ==
    (Called /\ ocrField \in DOMAIN FIELD_PATTERNS) =>
        IF CandidatesIn(ocrText, ocrField) = <<>>
        THEN extraction.value = Null
        ELSE extraction.value =
                 Str(CandidatesIn(ocrText, ocrField)[BestIndex(CandidatesIn(ocrText, ocrField))])

\* C12: a call that returns gives either null with confidence 0, and does so
\* when the text has no candidate, or a string v longer than 2 characters
\* with confidence min(0.9, 0.6 + length(v)/100); the value is null exactly
\* when the confidence is 0, and a non-zero confidence is in [0.63, 0.9].
C12_ValueAndConfidence ==
    (Called /\ ~extraction.threw) =>
        /\ \/ extraction.value = Null /\ extraction.confidence = Zero
           \/ /\ extraction.value.type = "string"
              /\ Len(extraction.value.str) > 2
              /\ extraction.confidence = HeuristicConfidence(Len(extraction.value.str))
        /\ CandidatesIn(ocrText, ocrField) = <<>> =>
               extraction.value = Null /\ extraction.confidence = Zero
        /\ (extraction.value = Null) <=> (extraction.confidence = Zero)
        /\ extraction.confidence # Zero =>
               /\ ~BigLess(extraction.confidence, Decimal(63))
               /\ ~BigLess(Decimal(90), extraction.confidence)

\* a value of more than 30 characters, whose confidence is the limit 0.9
C12_Witness ==
    /\ Called
    /\ ~extraction.threw
    /\ extraction.value # Null
    /\ Len(extraction.value.str) > 30
    /\ extraction.confidence = Decimal(90)

\* C13: a call of extractField with a name that is no key of FIELD_PATTERNS
\* ends in an error and returns no result.
C13_UnknownFieldRaises ==
    (Called /\ ocrField \notin DOMAIN FIELD_PATTERNS) => extraction.threw

(***************************************************************************)
(* The URL scraper.                                                        *)
(***************************************************************************)
\* scrapeProduct has run past the extraction of the structured data
Scraped == scrape.pc # "loaded"

\* the value a JSON-LD object offers for a field
JsonLdValue(schema, f) ==
    CASE schema.type = "Product" -> schema[IF f = "product_name" THEN "name" ELSE f]
      [] schema.type = "WebPage" /\ f \in {"product_name", "price", "manufacturer"} ->
            schema[IF f = "product_name" THEN "name" ELSE f]
      [] schema.type = "BreadcrumbList" /\ f = "product_name" ->
            ProductBreadcrumb(schema.items)
      [] /\ schema.type = "Organization"
         /\ f = "manufacturer"
         /\ Truthy(schema.name)
         /\ ~includes(toLowerCase(schema.name.str), <<"f", "l", "i", "p", "k", "a", "r",
                 "t">>) -> schema.name
      [] OTHER -> Null

\* Product, then Product under a WebPage or WebSite, then BreadcrumbList, then
\* Organization
TypeRank(type) ==
    CASE type = "Product" -> 1
      [] type = "WebPage" -> 2
      [] type = "BreadcrumbList" -> 3
      [] type = "Organization" -> 4
      [] OTHER -> 5

\* the value of the best-ranked object that offers one, the first of its rank
RankedValue(schemas, f) ==
    LET offering == {k \in 1..Len(schemas) : Truthy(JsonLdValue(schemas[k], f))}
    IN  IF offering = {} THEN Null
        ELSE JsonLdValue(schemas[CHOOSE k \in offering : \A j \in offering :
                                     \/ TypeRank(schemas[k].type) < TypeRank(schemas[j].type)
                                     \/ /\ TypeRank(schemas[k].type) = TypeRank(schemas[j].type)
                                        /\ k <= j], f)

\* C14: for every field, the value extractStructuredData takes from JSON-LD
\* is the one of the best-ranked object offering a value (Product, then
\* Product under WebPage/WebSite, then BreadcrumbList, then Organization),
\* whatever the order of the objects in the page.
C14_RankedByType ==
    Scraped =>
        \A f \in ScrapedKeys :
            Truthy(RankedValue(page.jsonld, f)) =>
                scrape.structuredData[f] = RankedValue(page.jsonld, f)

\* scrapeProduct has come to its await without throwing
Extracted == scrape.pc \in {"awaiting", "returned"}

\* C15: on a recognized domain (Flipkart, Myntra, Nykaa, Amazon), a field
\* whose value was found in the structured data (JSON-LD, meta tags) keeps
\* that value through the site-specific selectors.
C15_StructuredDataKept ==
    (Extracted /\ Platform(page.url) # "generic") =>
        \A f \in ScrapedKeys :
            Truthy(scrape.structuredData[f]) => scrape.fields[f] = scrape.structuredData[f]

\* the text the selectors of the platform's branch find for a field
SiteText(dom, f) ==
    CASE Platform(dom.url) = "generic" -> <<>>
      [] Platform(dom.url) = "nykaa" /\ f \in {"net_quantity", "country_of_origin"} -> <<>>
      [] Platform(dom.url) = "amazon" /\ f = "manufacturer" -> dom.site.byline
      [] Platform(dom.url) = "amazon" /\ f = "price" ->
            dom.site.price \o dom.site.price_whole \o dom.site.price_fraction
      [] OTHER -> dom.site[f]

\* C16: scrapeProduct does not throw, whatever the page holds, and a field
\* for which neither the structured data nor the selectors of the site nor
\* the generic selectors find a value is null in rawData.
C16_AbsentDataIsNull ==
    /\ scrape.pc # "threw"
    /\ Extracted =>
           \A key \in RawKeys :
               LET f == IF key = "MRP" THEN "price" ELSE key
               IN  (/\ ~Truthy(scrape.structuredData[f])
                    /\ trim(SiteText(page, f)) = <<>>
                    /\ trim(page.generic[f]) = <<>>) => scrape.rawData[key] = Null

\* C17: when the structured data and the site-specific selectors yield
\* nothing for a field, the field has the value of the generic selectors,
\* on every domain; and on a domain without site-specific selectors the
\* generic selectors do not replace a value of the structured data.
C17_GenericFallback ==
    Extracted =>
        \A f \in ScrapedKeys :
            /\ (~Truthy(scrape.structuredData[f]) /\ trim(SiteText(page, f)) = <<>>) =>
                   scrape.fields[f] = TrimOrNull(page.generic[f])
            /\ (Platform(page.url) = "generic" /\ Truthy(scrape.structuredData[f])) =>
                   scrape.fields[f] = scrape.structuredData[f]

\* the AI answer replaces the value of rawData[key]
Replaced(key) == scrape.normalizedData[key] # scrape.rawData[key]

\* C18: a string scrapeProduct returns for a field is never longer than the
\* maxLength of the field's schema, and when it is the extracted string and
\* not an AI replacement, it is the extracted string cut at exactly that
\* maxLength.
C18_CutAtMaxLength ==
    scrape.pc = "returned" =>
        \A key \in RawKeys :
            scrape.normalizedData[key].type = "string" =>
                /\ Len(scrape.normalizedData[key].str) <= MaxLengthOf(key)
                /\ ~Replaced(key) =>
                       scrape.normalizedData[key].str =
                           substring(scrape.fields[IF key = "MRP" THEN "price" ELSE key].str,
                                     MaxLengthOf(key))

\* the AI answer has a non-empty value for the key
AiHasValue(key) == key \in DOMAIN aiAnswer.values /\ Truthy(aiAnswer.values[key])

\* the AI answer reports a confidence for the key, and it is above 0.7
AiIsConfident(key) ==
    key \in DOMAIN aiAnswer.confidence /\ BigLess(Decimal(70), aiAnswer.confidence[key])

\* C19: normalizeProductData replaces the value of a field only by a
\* non-empty AI value, and only if the field was empty or the confidence the
\* AI reports for it is above 0.7; when the AI value is empty, or the field
\* has a value and the confidence is at most 0.7 or unreported, or there is
\* no AI answer, the field keeps its value.
C19_AiReplacesOnlyWhenAllowed ==
    scrape.pc = "returned" =>
        \A key \in RawKeys :
            /\ Replaced(key) =>
                   /\ aiAnswer.configured /\ ~aiAnswer.failed
                   /\ AiHasValue(key)
                   /\ scrape.normalizedData[key] = aiAnswer.values[key]
                   /\ ~Truthy(scrape.rawData[key]) \/ AiIsConfident(key)
            /\ (~AiHasValue(key) \/ (Truthy(scrape.rawData[key]) /\ ~AiIsConfident(key))) =>
                   ~Replaced(key)

\* one field with a value is replaced on a confidence above 0.7, and one
\* field with a different value is kept on a confidence of exactly 0.7
C19_Witness ==
    /\ scrape.pc = "returned"
    /\ \E key \in RawKeys :
           Truthy(scrape.rawData[key]) /\ AiIsConfident(key) /\ Replaced(key)
    /\ \E key \in RawKeys :
           /\ Truthy(scrape.rawData[key])
           /\ AiHasValue(key)
           /\ aiAnswer.values[key] # scrape.rawData[key]
           /\ key \in DOMAIN aiAnswer.confidence
           /\ aiAnswer.confidence[key] = Decimal(70)
           /\ ~Replaced(key)

(***************************************************************************)
(* The whole path of a submission.                                         *)
(***************************************************************************)
\* C21: in every label, a mandatory field whose normalized value is null
\* has the confidence 0 in _field_confidences.
C21_MissHasZeroConfidence ==
    \A i \in Passes :
        \A f \in MandatoryNames :
            labels[i][f] = Null => labels[i].field_confidences[f] = Zero

\* C28: an approved label has all six mandatory fields present, no
\* 'missing' violation and the score 100; a failed label has at most four
\* mandatory fields present and a score of at most 67.
C28_StatusBoundsScore ==
    \A i \in Passes :
        /\ labels[i].status = "approved" =>
               /\ labels[i].fields_present = 6
               /\ \A j \in 1..Len(labels[i].violations) :
                      labels[i].violations[j].type # "missing"
               /\ labels[i].compliance_score = 100
        /\ labels[i].status = "failed" =>
               /\ labels[i].fields_present <= 4
               /\ labels[i].compliance_score <= 67

\* a failed label with four mandatory fields present and the score 67
C28_Witness ==
    /\ Len(labels) >= 1
    /\ labels[1].status = "failed"
    /\ labels[1].fields_present = 4
    /\ labels[1].compliance_score = 67

\* C23: whatever calls of extractField came before, a call finds every
\* pattern with its lastIndex at the start and leaves it there, and returns
\* what the same call returns when it is the first call ever made.
C23_IndependentOfHistory ==
    /\ lastIndex = NewLastIndex
    /\ extraction # <<>> =>
           extraction = extractField(ocrText, ocrField, NewLastIndex)

\* a call whose loop ran pattern.exec more than once and kept a value
C23_Witness ==
    /\ extraction # <<>>
    /\ extraction.value # Null
    /\ \E k \in 1..Len(FIELD_PATTERNS[ocrField]) :
           Len(match(FIELD_PATTERNS[ocrField][k], ocrText)) >= 2

(***************************************************************************)
(* The handler of /api/check.                                              *)
(***************************************************************************)
\* the statuses the CHECK constraint of the submissions table admits
StoredStatuses == {"approved", "failed", "needs_review"}

\* C22: insertSubmission is called with one of the statuses the table admits:
\* the label's status when it is one of them, 'needs_review' for any other
\* value; no insert is refused for its status.
C22_StoredStatusAdmitted ==
    /\ \A status \in StoredStatuses \cup {"pending", "compliant", ""} :
           PersistedStatus(status) =
               IF status \in StoredStatuses THEN status ELSE "needs_review"
    /\ request.submission # <<>> =>
           /\ request.submission.status \in StoredStatuses
           /\ request.submission.status = PersistedStatus(labels[1].status)
           /\ labels[1].status \in StoredStatuses =>
                  request.submission.status = labels[1].status

\* the row of a failed label is inserted
C22_Witness ==
    /\ request.submission # <<>>
    /\ request.submission.inserted
    /\ request.submission.status = "failed"
    /\ labels[1].status = "failed"

\* C24: every message of the handler's own check of the fields required of
\* the source ('<field> missing') is among the violations of the response.
C24_RequiredSubsetReported ==
    (request.response # <<>> /\ request.response.code = 200) =>
        \A j \in 1..Len(request.checks) :
            \E i \in 1..Len(request.response.body.violations) :
                request.response.body.violations[i] = request.checks[j]

\* C26: when the response of a request with an uploaded image is sent, the
\* uploaded file is no longer in the uploads directory.
C26_FileGoneAtResponse ==
    (request.response # <<>> /\ request.image) => ~request.file

\* C25: a label exists only when the extraction of the submission is
\* complete: scrapeProduct has returned what normalizeProductData resolved
\* to, or processLabelImage has extracted every field; the label is computed
\* from that complete data.
C25_NormalizedAfterExtraction ==
    labels # <<>> =>
        /\ request.url =>
               /\ scrape.pc = "returned"
               /\ \A f \in DOMAIN scrape.normalizedData :
                      rawData[f] = scrape.normalizedData[f]
        /\ request.image =>
               /\ extraction # <<>>
               /\ rawData = processLabelImage(ocrText, NewLastIndex).fields
        /\ labels[1] = createNormalizedLabel(rawData, fieldConfidences)

\* the label of a page whose data the AI step has changed
C25_Witness ==
    /\ labels # <<>>
    /\ request.url
    /\ aiAnswer.configured
    /\ scrape.normalizedData # scrape.rawData

\* C27: violation rows are written only for a submission whose row was
\* inserted; when insertSubmission fails no row is written and the response
\* is still the compliance result.
C27_ViolationsAfterSubmission ==
    /\ request.rows # <<>> =>
           /\ request.submission # <<>>
           /\ request.submission.inserted
    /\ (request.response # <<>> /\ request.submission # <<>>
            /\ ~request.submission.inserted) =>
           /\ request.rows = <<>>
           /\ request.response.code = 200
           /\ request.response.body = request.log

\* the result of a label with violations is returned although its row was
\* not inserted
C27_Witness ==
    /\ request.response # <<>>
    /\ request.submission # <<>>
    /\ ~request.submission.inserted
    /\ Len(labels[1].violations) > 0
    /\ request.response.body.status = labels[1].status

\* the AI step left the scraped data as it was: OpenAI is not configured,
\* or the call failed
WithoutAi == ~aiAnswer.configured \/ aiAnswer.failed

\* C29: the label of a url whose data the AI step left as it was has at most
\* 4 mandatory fields, no confidence above the default 0.5, a score of at
\* most 64 and the status 'failed'.
C29_UrlWithoutAiFails ==
    (labels # <<>> /\ request.url /\ WithoutAi) =>
        /\ labels[1].consumer_care = Null
        /\ labels[1].date_of_manufacture = Null
        /\ labels[1].fields_present <= 4
        /\ \A f \in MandatoryNames :
               ~BigLess(Decimal(50), labels[1].field_confidences[f])
        /\ labels[1].compliance_score <= 64
        /\ labels[1].status = "failed"

\* a page that yields the four fields a scrape can yield scores 64
C29_Witness ==
    /\ labels # <<>>
    /\ request.url
    /\ WithoutAi
    /\ labels[1].fields_present = 4
    /\ labels[1].compliance_score = 64

\* C30: a raw value that is not a string is not kept: the label's field is
\* null, and the whole label, violations included, is the label of the same
\* data without that value; the request is answered with the label, not
\* with an error.
C30_NonStringIsAbsent ==
    \A f \in AllNames :
        (labels # <<>> /\ rawData[f].type \notin {"string", "null"}) =>
            /\ labels[1][f] = Null
            /\ labels[1] = createNormalizedLabel([rawData EXCEPT ![f] = Null],
                                                 fieldConfidences)
            /\ f \in MandatoryNames =>
                   \E j \in 1..Len(labels[1].violations) :
                       /\ labels[1].violations[j].field = f
                       /\ labels[1].violations[j].type = "missing"
                       /\ labels[1].violations[j].severity = "high"
            /\ request.response # <<>> =>
                   /\ request.response.code = 200
                   /\ request.response.body.status = labels[1].status

\* the numeric price of JSON-LD reached createNormalizedLabel as MRP, and the
\* response is sent
C30_Witness ==
    /\ labels # <<>>
    /\ rawData["MRP"].type = "number"
    /\ labels[1]["MRP"] = Null
    /\ request.response # <<>>

====
